---- MODULE Spec2Model ----
(***************************************************************************)
(* Tool-calling orchestration loop of the chat application:                *)
(*   getChatCompletion      (src/app/chat/llm.service.ts, buffered driver) *)
(*   streamChatCompletion   (src/app/chat/llm.service.ts, streaming driver)*)
(*   streamUserMessageById  (chat service, session wrapper)                *)
(*                                                                         *)
(* Text is a sequence of tokens.  Text produced by the LLM (content,       *)
(* argument strings) is tokenised per character; fixed phrases of the code *)
(* and tool names are one token each.                                      *)
(***************************************************************************)
EXTENDS Integers, Sequences, FiniteSets, TLC

(***************************************************************************)
(* JavaScript values                                                       *)
(***************************************************************************)
Undefined == [t |-> "undefined"]
Str(s) == [t |-> "string", s |-> s]
Num(n) == [t |-> "number", n |-> n]
\* An object is its set of <<key, value>> entries.
Obj(entries) == [t |-> "object", f |-> entries]

Null == [t |-> "null"]

\* if (v) ...: undefined, null, "" and 0 are falsy; every object, also {}, is truthy.
Truthy(v) ==
  CASE v.t \in {"undefined", "null"} -> FALSE
    [] v.t = "string" -> v.s # <<>>
    [] v.t = "number" -> v.n # 0
    [] OTHER -> TRUE

\* o.key
Get(o, key) ==
  IF o.t = "object" /\ \E e \in o.f : e[1] = key
  THEN (CHOOSE e \in o.f : e[1] = key)[2]
  ELSE Undefined

(***************************************************************************)
(* Text helpers                                                            *)
(***************************************************************************)
RECURSIVE Flatten(_)
Flatten(ss) == IF ss = <<>> THEN <<>> ELSE Head(ss) \o Flatten(Tail(ss))

\* items.join("\n")
RECURSIVE JoinNewline(_)
JoinNewline(items) ==
  IF items = <<>> THEN <<>>
  ELSE IF Len(items) = 1 THEN Head(items)
  ELSE Head(items) \o <<"\n">> \o JoinNewline(Tail(items))

IsPrefix(p, s) == Len(p) <= Len(s) /\ SubSeq(s, 1, Len(p)) = p

\* s.includes(p)
Includes(s, p) ==
  \E i \in 0..(Len(s) - Len(p)) : SubSeq(s, i + 1, i + Len(p)) = p

(***************************************************************************)
(* JSON.stringify / JSON.parse on the texts the drivers handle             *)
(***************************************************************************)
QUOTE == "\""
BACKSLASH == "\\"

\* The body of a JSON string literal: quote and backslash are escaped.
RECURSIVE EscapeText(_)
EscapeText(s) ==
  IF s = <<>> THEN <<>>
  ELSE (IF Head(s) \in {QUOTE, BACKSLASH} THEN <<BACKSLASH, Head(s)>> ELSE <<Head(s)>>)
       \o EscapeText(Tail(s))

\* Inverse of EscapeText on a well-formed literal body.
RECURSIVE UnescapeText(_)
UnescapeText(s) ==
  IF s = <<>> THEN <<>>
  ELSE IF Head(s) = BACKSLASH /\ Len(s) >= 2
       THEN <<s[2]>> \o UnescapeText(Tail(Tail(s)))
       ELSE <<Head(s)>> \o UnescapeText(Tail(s))

\* JSON.stringify(text)
StringifyText(s) == <<QUOTE>> \o EscapeText(s) \o <<QUOTE>>

ErrorOpen == <<"{", QUOTE, "error", QUOTE, ":", QUOTE>>
ErrorClose == <<QUOTE, "}">>

\* JSON.stringify({ error: msg })
StringifyError(msg) == ErrorOpen \o EscapeText(msg) \o ErrorClose

\* Whether a literal body ends inside an escape or holds a bare quote.
RECURSIVE WellEscaped(_)
WellEscaped(s) ==
  IF s = <<>> THEN TRUE
  ELSE IF Head(s) = BACKSLASH THEN Len(s) >= 2 /\ WellEscaped(Tail(Tail(s)))
  ELSE Head(s) # QUOTE /\ WellEscaped(Tail(s))

\* JSON.parse(text) when text is an object of the shape {"error": "<string>"}:
\* the error string, and whether text has that shape.
IsErrorObject(text) ==
  /\ Len(text) >= Len(ErrorOpen) + Len(ErrorClose)
  /\ IsPrefix(ErrorOpen, text)
  /\ SubSeq(text, Len(text) - Len(ErrorClose) + 1, Len(text)) = ErrorClose
  /\ WellEscaped(SubSeq(text, Len(ErrorOpen) + 1, Len(text) - Len(ErrorClose)))

ParseErrorObject(text) ==
  UnescapeText(SubSeq(text, Len(ErrorOpen) + 1, Len(text) - Len(ErrorClose)))

\* JSON.parse of an argument string over the characters { } 1: the JSON texts
\* over these characters are "{}" and the non-empty digit strings.
AllOnes(s) == s # <<>> /\ \A i \in 1..Len(s) : s[i] = "1"

RECURSIVE Decimal(_)
Decimal(s) == IF s = <<>> THEN 0 ELSE 10 * Decimal(SubSeq(s, 1, Len(s) - 1)) + 1

UnexpectedEnd == <<"Unexpected end of JSON input">>
UnexpectedToken == <<"Unexpected token">>

JSONParse(s) ==
  IF s = <<"{", "}">> THEN [ok |-> TRUE, value |-> Obj({}), message |-> <<>>]
  ELSE IF AllOnes(s) THEN [ok |-> TRUE, value |-> Num(Decimal(s)), message |-> <<>>]
  ELSE IF s = <<>> \/ s = <<"{">>
       THEN [ok |-> FALSE, value |-> Undefined, message |-> UnexpectedEnd]
       ELSE [ok |-> FALSE, value |-> Undefined, message |-> UnexpectedToken]

(***************************************************************************)
(* Bounds of the model                                                     *)
(***************************************************************************)
\* Longest tool-call batch of one LLM response.
MaxBatch == 2
\* Tool calls the LLM stub chooses freely over one run, before it only
\* repeats one fixed call or answers.
MaxFreeCalls == 2

(***************************************************************************)
(* Tool registry and handlers.  The repository ships an empty registry     *)
(* with a commented example; the model registers five tools that cover the *)
(* handler behaviours the drivers distinguish.                             *)
(***************************************************************************)
TextItem(text) == [type |-> "text", text |-> text]
Arr(items) == [t |-> "array", items |-> items]

ToolResult(content, meta, structuredContent) ==
  [kind |-> "result", content |-> content, meta |-> meta,
   structuredContent |-> structuredContent]
\* throw new Error(message) / reject(new Error(message))
ThrowError(message) == [kind |-> "throw", isError |-> TRUE, message |-> message]
\* throw / reject of a value that is no Error instance but carries a message,
\* such as the plain object { message: "denied" }
ThrowValue == [kind |-> "throw", isError |-> FALSE, message |-> <<"denied">>]

TodoPath == <<"/todos">>
BoomMessage == <<"bad ", QUOTE, "x", QUOTE>>

toolRegistry == <<"add", "show_todos", "lookup", "boom", "reject">>

RegisteredNames == {toolRegistry[i] : i \in 1..Len(toolRegistry)}

\* Mutant: every name is taken for a registered tool.
FindToolAlways(name) == [found |-> TRUE, name |-> name]

\* toolRegistry.find((t) => t.name === name)
FindTool(name) ==
  IF name \in RegisteredNames THEN [found |-> TRUE, name |-> name]
  ELSE [found |-> FALSE, name |-> name]

\* tool.handler(args, { authInfo }): what the awaited promise settles to.
Handler(name, args) ==
  CASE name = "add" ->
         ToolResult(Arr(<<TextItem(<<"3">>)>>), Undefined, Undefined)
    [] name = "show_todos" ->
         ToolResult(Arr(<<TextItem(<<"o", "k">>), TextItem(<<>>)>>),
                    Obj({<<"path", Str(TodoPath)>>}),
                    Obj({<<"todos", Num(1)>>}))
    [] name = "lookup" ->
         ToolResult(Str(<<"n">>),
                    Obj({<<"path", Num(5)>>}),
                    Obj({}))
    [] name = "boom" -> ThrowError(BoomMessage)
    [] OTHER -> ThrowValue

\* item.text || item, as join() renders it
RenderItem(item) == IF item.text # <<>> THEN item.text ELSE <<"[object Object]">>

\* Mutant: the content is always serialised, never joined.
ResultTextStringified(result) ==
  IF result.content.t = "array"
  THEN <<"[">> \o JoinNewline([i \in 1..Len(result.content.items) |->
                                StringifyText(result.content.items[i].text)]) \o <<"]">>
  ELSE StringifyText(result.content.s)

\* Array.isArray(result.content)
\*   ? result.content.map((item) => item.text || item).join("\n")
\*   : JSON.stringify(result.content)
ResultText(result) ==
  IF result.content.t = "array"
  THEN JoinNewline([i \in 1..Len(result.content.items) |->
                      RenderItem(result.content.items[i])])
  ELSE StringifyText(result.content.s)

\* error instanceof Error ? error.message : "Unknown error"
ErrorMessageOf(isError, message) ==
  IF isError THEN message ELSE <<"Unknown error">>

\* Mutant: the caught error's message is dropped.
ExecutionErrorContentNoMessage(isError, message) ==
  StringifyError(<<"Error executing tool: ", "Unknown error">>)

\* JSON.stringify({ error: `Error executing tool: ${...}` })
ExecutionErrorContent(isError, message) ==
  StringifyError(<<"Error executing tool: ">> \o ErrorMessageOf(isError, message))

\* JSON.stringify({ error: `Tool ${name} not found` })
NotFoundContent(name) == StringifyError(<<"Tool ", name, " not found">>)

(***************************************************************************)
(* Messages                                                                *)
(***************************************************************************)
Absent == <<"<absent>">>

Message(role, content) ==
  [role |-> role, content |-> content, tool_calls |-> <<>>,
   tool_call_id |-> Absent, name |-> Absent]

AssistantToolCalls(content, calls) ==
  [role |-> "assistant", content |-> content, tool_calls |-> calls,
   tool_call_id |-> Absent, name |-> Absent]

\* Mutant: the tool message is filed under the tool's name.
ToolMessageUnderName(content, id, name) ==
  [role |-> "tool", content |-> content, tool_calls |-> <<>>,
   tool_call_id |-> <<name>>, name |-> <<name>>]

ToolMessage(content, id, name) ==
  [role |-> "tool", content |-> content, tool_calls |-> <<>>,
   tool_call_id |-> id, name |-> <<name>>]

FunctionCall(id, name, arguments) ==
  [id |-> id, type |-> "function",
   function |-> [name |-> name, arguments |-> arguments]]

\* The conversations a run is started with.
InitialMessages ==
  { <<Message("system", <<"s">>), Message("user", <<"q">>)>> }

(***************************************************************************)
(* LLM stub: the decision of each round.  Every request declares function  *)
(* tools only, so every tool call of a response is of type "function".     *)
(***************************************************************************)
CallKinds ==
  { [name |-> "add", arguments |-> <<"{", "}">>],
    [name |-> "show_todos", arguments |-> <<"{", "}">>],
    [name |-> "lookup", arguments |-> <<"{", "}">>],
    [name |-> "boom", arguments |-> <<"{", "}">>],
    [name |-> "reject", arguments |-> <<"{", "}">>],
    [name |-> "missing", arguments |-> <<"{", "}">>],
    [name |-> "add", arguments |-> <<"{">>],
    [name |-> "show_todos", arguments |-> <<>>] }

RepeatedCall == [name |-> "add", arguments |-> <<"1">>]

\* Content beside a tool-call batch, and content of a final answer.
ToolRoundContents == { <<>>, <<"h">> }
FinalContents == { <<>>, <<"o", "k">>, <<" ", "T", " ">> }

\* Provider-assigned id of call j of round r.
CallId(r, j) == <<"call_", ToString(r), "_", ToString(j)>>

Batch(r, kinds) ==
  [j \in 1..Len(kinds) |-> FunctionCall(CallId(r, j), kinds[j].name, kinds[j].arguments)]

LLMMessage(content, calls) == [kind |-> "message", content |-> content, tool_calls |-> calls]
LLMFailure == [kind |-> "error", content |-> <<>>, tool_calls |-> <<>>]

KindSeqs(n) == UNION { [1..m -> CallKinds] : m \in 1..n }

Min(a, b) == IF a <= b THEN a ELSE b

\* The decisions the stub may take in round r, given what it decided before.
FreeDecisions(r, freeCalls) ==
  { LLMMessage(c, Batch(r, ks)) :
      c \in ToolRoundContents, ks \in KindSeqs(Min(MaxBatch, MaxFreeCalls - freeCalls)) }

RepeatDecision(r) == LLMMessage(<<>>, Batch(r, <<RepeatedCall>>))

FinalDecisions == { LLMMessage(c, <<>>) : c \in FinalContents }

(***************************************************************************)
(* State                                                                   *)
(***************************************************************************)
VARIABLES
  llm,        \* the LLM stub: the decisions taken so far, one per round
  gcc,        \* the frame of getChatCompletion
  scc,        \* the frame of streamChatCompletion (an async generator)
  wrap,       \* the frame of streamUserMessageById, the generator's consumer
  emitted,    \* the chunks streamChatCompletion has yielded, in order
  delivered,  \* the events the subscriber of chat.streamMessage has received, in order
  subscribed, \* the observer of the subscription has not unsubscribed
  devMessage, \* the message rows of the session, in creation order
  devSession, \* the session row, with the id sequence of its message rows
  titleLog,   \* the getChatCompletion calls made to name the session, in order
  store,      \* the tables dev_session and dev_message of all users, and the last reply
  page,       \* the state of ChatPage: isStreaming, pendingMessage, handler calls in flight
  handlerLog, \* the tool handler invocations, in order (their side effects)
  requests    \* chat.completions.create calls issued by each driver

vars == <<llm, gcc, scc, wrap, emitted, delivered, subscribed, devMessage, devSession, titleLog,
          store, page, handlerLog, requests>>

maxIterations == 10

TooManyIterations == <<"Maximum tool call iterations exceeded">>
LLMErrorMessage == <<"upstream failure">>

\* The stub's choice for the next round.
StubChoices ==
  LET r == Len(llm.decisions) + 1 IN
    FinalDecisions \cup {LLMFailure, RepeatDecision(r)}
      \cup (IF llm.repeating THEN {} ELSE FreeDecisions(r, llm.freeCalls))

StubDecide(d) ==
  LET r == Len(llm.decisions) + 1 IN
    [decisions |-> Append(llm.decisions, d),
     freeCalls |-> IF d.kind = "message" /\ d # RepeatDecision(r)
                   THEN llm.freeCalls + Len(d.tool_calls) ELSE llm.freeCalls,
     repeating |-> llm.repeating \/ d = RepeatDecision(r)]

(***************************************************************************)
(* The sticky fields, shared text of both drivers                          *)
(***************************************************************************)
\* if (result._meta && !finalMeta) { finalMeta = result._meta; ... }
StickyMeta(finalMeta, result) ==
  IF Truthy(result.meta) /\ ~Truthy(finalMeta) THEN result.meta ELSE finalMeta

\* Mutant: the widget id is sticky on its own, taken from the first string path.
StickyWidgetIdOnItsOwn(finalMeta, finalWidgetId, result) ==
  IF Truthy(result.meta) /\ ~Truthy(finalWidgetId)
     /\ Truthy(Get(result.meta, "path")) /\ Get(result.meta, "path").t = "string"
  THEN Get(result.meta, "path")
  ELSE finalWidgetId

\* const metaPath = result._meta.path;
\* if (metaPath && typeof metaPath === "string") finalWidgetId = metaPath;
StickyWidgetId(finalMeta, finalWidgetId, result) ==
  IF Truthy(result.meta) /\ ~Truthy(finalMeta)
     /\ Truthy(Get(result.meta, "path")) /\ Get(result.meta, "path").t = "string"
  THEN Get(result.meta, "path")
  ELSE finalWidgetId

\* Mutant: the last structuredContent wins.
StickyStructuredContentLastWins(finalStructuredContent, result) ==
  IF Truthy(result.structuredContent)
  THEN result.structuredContent ELSE finalStructuredContent

\* if (result.structuredContent && !finalStructuredContent) ...
StickyStructuredContent(finalStructuredContent, result) ==
  IF Truthy(result.structuredContent) /\ ~Truthy(finalStructuredContent)
  THEN result.structuredContent ELSE finalStructuredContent

(***************************************************************************)
(* getChatCompletion                                                       *)
(***************************************************************************)
GccInit(messages) ==
  [pc |-> "while", messages |-> messages, iteration |-> 0,
   currentMessages |-> messages,
   finalMeta |-> Undefined, finalStructuredContent |-> Undefined,
   finalWidgetId |-> Undefined,
   toolCalls |-> <<>>, k |-> 0, args |-> Undefined,
   result |-> <<>>, error |-> <<>>]

\* const functionToolCalls = toolCalls.filter((tc) => tc.type === "function")
RECURSIVE FunctionToolCalls(_)
FunctionToolCalls(calls) ==
  IF calls = <<>> THEN <<>>
  ELSE (IF Head(calls).type = "function" THEN <<Head(calls)>> ELSE <<>>)
       \o FunctionToolCalls(Tail(calls))

\* catch (error) { throw new Error(`Failed to get chat completion: ${...}`) }
GccFailure(message) == <<"Failed to get chat completion: ">> \o message

\* Mutant: the loop admits one iteration more.
WithinCapOffByOne(iteration) == iteration <= maxIterations

\* while (iteration < maxIterations)
WithinCap(iteration) == iteration < maxIterations

\* Mutant: an empty tool_calls array counts as tool calls.
HasCallsAlways(calls) == Len(calls) >= 0

\* if (toolCalls && toolCalls.length > 0)
HasCalls(calls) == Len(calls) > 0

\* Mutant: the batch is walked from its end.
CurrentCallReversed(frame) == frame.toolCalls[Len(frame.toolCalls) - frame.k + 1]

\* for (const toolCall of toolCalls): the call the loop is at.
CurrentCall(frame) == frame.toolCalls[frame.k]

\* Mutant: only the widget id is tested.
AnyStickyWidgetOnly(frame) == Truthy(frame.finalWidgetId)

\* if (finalMeta || finalStructuredContent || finalWidgetId)
AnySticky(frame) ==
  Truthy(frame.finalMeta) \/ Truthy(frame.finalStructuredContent)
    \/ Truthy(frame.finalWidgetId)

\* The position after tool call k of the batch has been dealt with.
AfterCall(k, calls) == IF k >= Len(calls) THEN "while" ELSE "for"

(***************************************************************************)
(* Scheduling.  On one conversation the two runs are compared round by     *)
(* round: the buffered run takes a round, then the streaming run, under    *)
(* the session wrapper, takes the same round with the same decision.  Runs *)
(* of different conversations are concurrent: each continues at any of its *)
(* await points, in any order.                                             *)
(***************************************************************************)
\* The two runs were called with different message lists.
Concurrent == gcc.messages # scc.messages

\* The streaming run has used every decision the stub has taken.
SccCaughtUp ==
  /\ scc.iteration = Len(llm.decisions)
  /\ scc.pc \in {"idle", "while"} => scc.yielded = <<>>
  /\ scc.pc \in {"idle", "while", "returned", "thrown"}
  /\ scc.pc \in {"returned", "thrown"} => wrap.pc \in {"returned", "thrown"}

\* The buffered run starts its next round once the streaming run has caught up;
\* as the session wrapper's title call it runs while the wrapper awaits it.
\* A concurrent buffered run issues its request while the streaming run awaits the
\* response to its own request of the same round, so that the two rounds overlap.
GccScheduled ==
  \/ SccCaughtUp
  \/ wrap.pc = "title"
  \/ /\ Concurrent
     /\ \/ scc.pc = "await_llm" /\ scc.iteration = gcc.iteration + 1
        \/ scc.pc \in {"returned", "thrown"}

\* The streaming run and its consumer take the round the buffered run has taken.
\* A concurrent streaming run reads its stream while the buffered run executes its
\* tools; the handlers of the two runs are invoked in one order, buffered run first.
SccScheduled ==
  \/ Concurrent /\ (scc.pc = "for" => gcc.pc \in {"while", "returned", "thrown"})
  \/ gcc.pc = "idle"
  \/ /\ gcc.pc \in {"while", "returned", "thrown"}
     /\ gcc.pc = "while" => ~SccCaughtUp

\* while (iteration < maxIterations) { iteration++; await create(...)
GccRequest ==
  /\ GccScheduled
  /\ gcc.pc = "while"
  /\ WithinCap(gcc.iteration)
  /\ gcc' = [gcc EXCEPT !.pc = "await_llm", !.iteration = @ + 1]
  /\ requests' = [requests EXCEPT !.gcc = @ + 1]
  /\ UNCHANGED <<llm, handlerLog, scc, wrap, emitted, delivered, subscribed, devMessage, devSession, titleLog, store, page>>

\* throw new Error("Maximum tool call iterations exceeded")
GccCapExceeded ==
  /\ GccScheduled
  /\ gcc.pc = "while"
  /\ ~WithinCap(gcc.iteration)
  /\ gcc' = [gcc EXCEPT !.pc = "thrown", !.error = GccFailure(TooManyIterations)]
  /\ UNCHANGED <<llm, handlerLog, requests, scc, wrap, emitted, delivered, subscribed, devMessage, devSession, titleLog, store, page>>

\* Mutant: a rejected request is retried in the next loop iteration.
GccLLMFailsRetrying ==
  /\ gcc.pc = "await_llm"
  /\ LLMFailure \in StubChoices
  /\ llm' = StubDecide(LLMFailure)
  /\ gcc' = [gcc EXCEPT !.pc = "while"]
  /\ UNCHANGED <<handlerLog, requests, scc, wrap, emitted, delivered, subscribed, devMessage, devSession, titleLog, store, page>>

\* The request rejects.
GccLLMFails ==
  /\ gcc.pc = "await_llm"
  /\ LLMFailure \in StubChoices
  /\ llm' = StubDecide(LLMFailure)
  /\ gcc' = [gcc EXCEPT !.pc = "thrown", !.error = GccFailure(LLMErrorMessage)]
  /\ UNCHANGED <<handlerLog, requests, scc, wrap, emitted, delivered, subscribed, devMessage, devSession, titleLog, store, page>>

\* Mutant: currentMessages is one list of the module, which every run pushes to.
GccToolCallsResponseShared ==
  /\ gcc.pc = "await_llm"
  /\ \E d \in StubChoices :
       /\ d.kind = "message"
       /\ HasCalls(d.tool_calls)
       /\ llm' = StubDecide(d)
       /\ LET functionToolCalls == FunctionToolCalls(d.tool_calls) IN
            /\ gcc' = [gcc EXCEPT
                         !.currentMessages =
                            Append(@, AssistantToolCalls(d.content, functionToolCalls)),
                         !.toolCalls = functionToolCalls,
                         !.k = 1,
                         !.pc = AfterCall(0, functionToolCalls)]
            /\ scc' = [scc EXCEPT
                         !.currentMessages =
                            Append(@, AssistantToolCalls(d.content, functionToolCalls))]
  /\ UNCHANGED <<handlerLog, requests, wrap, emitted, delivered, subscribed, devMessage, devSession, titleLog, store, page>>

\* The response carries tool calls: push the assistant message, enter the for loop.
GccToolCallsResponse ==
  /\ gcc.pc = "await_llm"
  /\ \E d \in StubChoices :
       /\ d.kind = "message"
       /\ HasCalls(d.tool_calls)
       /\ llm' = StubDecide(d)
       /\ LET functionToolCalls == FunctionToolCalls(d.tool_calls) IN
            gcc' = [gcc EXCEPT
                      !.currentMessages =
                         Append(@, AssistantToolCalls(d.content, functionToolCalls)),
                      !.toolCalls = functionToolCalls,
                      !.k = 1,
                      !.pc = AfterCall(0, functionToolCalls)]
  /\ UNCHANGED <<handlerLog, requests, scc, wrap, emitted, delivered, subscribed, devMessage, devSession, titleLog, store, page>>

\* No tool calls: return { content, _meta, structuredContent, widgetId }.
GccFinalResponse ==
  /\ gcc.pc = "await_llm"
  /\ \E d \in StubChoices :
       /\ d.kind = "message"
       /\ ~HasCalls(d.tool_calls)
       /\ llm' = StubDecide(d)
       /\ gcc' = [gcc EXCEPT
                    !.pc = "returned",
                    !.result = <<[content |-> d.content,
                                  meta |-> gcc.finalMeta,
                                  structuredContent |-> gcc.finalStructuredContent,
                                  widgetId |-> gcc.finalWidgetId]>>]
  /\ UNCHANGED <<handlerLog, requests, scc, wrap, emitted, delivered, subscribed, devMessage, devSession, titleLog, store, page>>

\* The tool is not registered: push the error message, continue with the next call.
GccToolNotFound ==
  /\ gcc.pc = "for"
  /\ LET toolCall == CurrentCall(gcc) IN
       /\ ~FindTool(toolCall.function.name).found
       /\ gcc' = [gcc EXCEPT
                    !.currentMessages =
                       Append(@, ToolMessage(NotFoundContent(toolCall.function.name),
                                             toolCall.id, toolCall.function.name)),
                    !.k = @ + 1,
                    !.pc = AfterCall(gcc.k, gcc.toolCalls)]
  /\ UNCHANGED <<llm, handlerLog, requests, scc, wrap, emitted, delivered, subscribed, devMessage, devSession, titleLog, store, page>>

\* const args = JSON.parse(toolCall.function.arguments) throws.
GccArgsUnparsable ==
  /\ gcc.pc = "for"
  /\ LET toolCall == CurrentCall(gcc)
         parsed == JSONParse(toolCall.function.arguments) IN
       /\ FindTool(toolCall.function.name).found
       /\ ~parsed.ok
       /\ gcc' = [gcc EXCEPT
                    !.currentMessages =
                       Append(@, ToolMessage(ExecutionErrorContent(TRUE, parsed.message),
                                             toolCall.id, toolCall.function.name)),
                    !.k = @ + 1,
                    !.pc = AfterCall(gcc.k, gcc.toolCalls)]
  /\ UNCHANGED <<llm, handlerLog, requests, scc, wrap, emitted, delivered, subscribed, devMessage, devSession, titleLog, store, page>>

\* await tool.handler(args, { authInfo }): the handler is invoked.
GccInvokeHandler ==
  /\ gcc.pc = "for"
  /\ LET toolCall == CurrentCall(gcc)
         parsed == JSONParse(toolCall.function.arguments) IN
       /\ FindTool(toolCall.function.name).found
       /\ parsed.ok
       /\ gcc' = [gcc EXCEPT !.pc = "await_tool", !.args = parsed.value]
       /\ handlerLog' = Append(handlerLog,
                               [run |-> "gcc", id |-> toolCall.id,
                                name |-> toolCall.function.name, args |-> parsed.value])
  /\ UNCHANGED <<llm, requests, scc, wrap, emitted, delivered, subscribed, devMessage, devSession, titleLog, store, page>>

\* The handler's promise resolves: capture the sticky fields, push the tool message.
GccHandlerReturns ==
  /\ gcc.pc = "await_tool"
  /\ LET toolCall == CurrentCall(gcc)
         result == Handler(toolCall.function.name, gcc.args) IN
       /\ result.kind = "result"
       /\ gcc' = [gcc EXCEPT
                    !.finalMeta = StickyMeta(@, result),
                    !.finalWidgetId = StickyWidgetId(gcc.finalMeta, @, result),
                    !.finalStructuredContent = StickyStructuredContent(@, result),
                    !.currentMessages =
                       Append(@, ToolMessage(ResultText(result),
                                             toolCall.id, toolCall.function.name)),
                    !.args = Undefined,
                    !.k = @ + 1,
                    !.pc = AfterCall(gcc.k, gcc.toolCalls)]
  /\ UNCHANGED <<llm, handlerLog, requests, scc, wrap, emitted, delivered, subscribed, devMessage, devSession, titleLog, store, page>>

\* The handler throws or its promise rejects: push the error message.
GccHandlerThrows ==
  /\ gcc.pc = "await_tool"
  /\ LET toolCall == CurrentCall(gcc)
         result == Handler(toolCall.function.name, gcc.args) IN
       /\ result.kind = "throw"
       /\ gcc' = [gcc EXCEPT
                    !.currentMessages =
                       Append(@, ToolMessage(ExecutionErrorContent(result.isError,
                                                                   result.message),
                                             toolCall.id, toolCall.function.name)),
                    !.args = Undefined,
                    !.k = @ + 1,
                    !.pc = AfterCall(gcc.k, gcc.toolCalls)]
  /\ UNCHANGED <<llm, handlerLog, requests, scc, wrap, emitted, delivered, subscribed, devMessage, devSession, titleLog, store, page>>

GccNext ==
  \/ GccRequest
  \/ GccCapExceeded
  \/ GccLLMFails
  \/ GccToolCallsResponse
  \/ GccFinalResponse
  \/ GccToolNotFound
  \/ GccArgsUnparsable
  \/ GccInvokeHandler
  \/ GccHandlerReturns
  \/ GccHandlerThrows

GccDone == gcc.pc \in {"returned", "thrown"}

(***************************************************************************)
(* The provider's stream: the events that deliver one decision             *)
(***************************************************************************)
Delta(index, id, name, arguments) ==
  [index |-> index, id |-> id, hasFunction |-> TRUE,
   name |-> name, arguments |-> arguments]

\* A tool-call delta without function data: { index, id }.
NonFunctionDelta(index, id) ==
  [index |-> index, id |-> id, hasFunction |-> FALSE, name |-> "", arguments |-> <<>>]

Event(content, deltas, finish_reason) ==
  [content |-> content, tool_calls |-> deltas, finish_reason |-> finish_reason]

FinishReason(d) == IF Len(d.tool_calls) > 0 THEN "tool_calls" ELSE "stop"

WholeDelta(calls, j) ==
  Delta(j - 1, calls[j].id, calls[j].function.name, calls[j].function.arguments)

OpeningDelta(calls, j) == Delta(j - 1, calls[j].id, calls[j].function.name, <<>>)

FragmentDelta(calls, j, p) == Delta(j - 1, <<>>, "", <<calls[j].function.arguments[p]>>)

MaxArgsLen(calls) ==
  IF calls = <<>> THEN 0
  ELSE CHOOSE n \in {Len(calls[j].function.arguments) : j \in 1..Len(calls)} :
         \A j \in 1..Len(calls) : Len(calls[j].function.arguments) <= n

\* The argument characters at position p of every call that has one, in call order.
RECURSIVE FragmentsAt(_, _, _)
FragmentsAt(calls, p, j) ==
  IF j > Len(calls) THEN <<>>
  ELSE (IF p <= Len(calls[j].function.arguments)
        THEN <<Event(<<>>, <<FragmentDelta(calls, j, p)>>, "null")>> ELSE <<>>)
       \o FragmentsAt(calls, p, j + 1)

Styles == {"whole", "interleaved", "single"}

ContentEvents(content) == [i \in 1..Len(content) |-> Event(<<content[i]>>, <<>>, "null")]

\* One call per event / the calls opened first and their arguments delivered
\* character by character in turn / every call in the final event.
Fragmented(d, style) ==
  LET calls == d.tool_calls IN
    ContentEvents(d.content) \o
    CASE style = "whole" ->
           [j \in 1..Len(calls) |-> Event(<<>>, <<WholeDelta(calls, j)>>, "null")]
           \o <<Event(<<>>, <<>>, FinishReason(d))>>
      [] style = "interleaved" ->
           [j \in 1..Len(calls) |-> Event(<<>>, <<OpeningDelta(calls, j)>>, "null")]
           \o Flatten([p \in 1..MaxArgsLen(calls) |-> FragmentsAt(calls, p, 1)])
           \o <<Event(<<>>, <<>>, FinishReason(d))>>
      [] OTHER ->
           <<Event(<<>>, [j \in 1..Len(calls) |-> WholeDelta(calls, j)], FinishReason(d))>>

(***************************************************************************)
(* Delta reassembly                                                        *)
(***************************************************************************)
\* Mutant: a later argument fragment replaces the earlier ones.
ApplyDeltaReplacing(toolCalls, delta) ==
  IF ~delta.hasFunction THEN [ok |-> TRUE, toolCalls |-> toolCalls]
  ELSE
    LET grown == IF delta.index >= Len(toolCalls)
                 THEN Append(toolCalls, [id |-> delta.id, name |-> "", arguments |-> <<>>])
                 ELSE toolCalls
        i == delta.index + 1
        assigns == delta.id # <<>> \/ delta.name # "" \/ delta.arguments # <<>>
    IN IF i > Len(grown)
       THEN [ok |-> ~assigns, toolCalls |-> grown]
       ELSE [ok |-> TRUE,
             toolCalls |->
               [grown EXCEPT ![i] =
                  [id |-> IF delta.id # <<>> THEN delta.id ELSE @.id,
                   name |-> IF delta.name # "" THEN delta.name ELSE @.name,
                   arguments |-> IF delta.arguments # <<>> THEN delta.arguments ELSE @.arguments]]]

\* One toolCallDelta of delta.tool_calls applied to the in-progress list.  An
\* index past the end of the list after the push reads toolCalls[index] as
\* undefined: assigning to its fields throws a TypeError.
ApplyDelta(toolCalls, delta) ==
  IF ~delta.hasFunction THEN [ok |-> TRUE, toolCalls |-> toolCalls]
  ELSE
    LET grown == IF delta.index >= Len(toolCalls)
                 THEN Append(toolCalls, [id |-> delta.id, name |-> "", arguments |-> <<>>])
                 ELSE toolCalls
        i == delta.index + 1
        assigns == delta.id # <<>> \/ delta.name # "" \/ delta.arguments # <<>>
    IN IF i > Len(grown)
       THEN [ok |-> ~assigns, toolCalls |-> grown]
       ELSE [ok |-> TRUE,
             toolCalls |->
               [grown EXCEPT ![i] =
                  [id |-> IF delta.id # <<>> THEN delta.id ELSE @.id,
                   name |-> IF delta.name # "" THEN delta.name ELSE @.name,
                   arguments |-> @.arguments \o delta.arguments]]]

\* for (const toolCallDelta of deltaToolCalls) { ... }
RECURSIVE ApplyDeltas(_, _)
ApplyDeltas(toolCalls, deltas) ==
  IF deltas = <<>> THEN [ok |-> TRUE, toolCalls |-> toolCalls]
  ELSE LET first == ApplyDelta(toolCalls, Head(deltas)) IN
         IF first.ok THEN ApplyDeltas(first.toolCalls, Tail(deltas)) ELSE first

\* if (choice.finish_reason === "tool_calls") hasToolCalls = true;
\* if (deltaToolCalls && deltaToolCalls.length > 0) hasToolCalls = true;
HasToolCallsAfter(hasToolCalls, event) ==
  hasToolCalls \/ event.finish_reason = "tool_calls" \/ Len(event.tool_calls) > 0

(***************************************************************************)
(* streamChatCompletion                                                    *)
(***************************************************************************)
ContentChunk(content) == [type |-> "content", content |-> content]
\* Mutant: the chunk carries the first call of the batch only.
ToolCallChunkFirstOnly(toolCalls) ==
  [type |-> "tool_call", toolCalls |-> SubSeq(toolCalls, 1, 1)]

ToolCallChunk(toolCalls) == [type |-> "tool_call", toolCalls |-> toolCalls]
ToolResultChunk(content) == [type |-> "tool_result", content |-> content]
MetadataChunk(meta, structuredContent, widgetId) ==
  [type |-> "metadata",
   metadata |-> [meta |-> meta, structuredContent |-> structuredContent,
                 widgetId |-> widgetId]]
DoneChunk == [type |-> "done"]

\* The provider's stream object: its events and how many of them were read.
\* The object is dropped when the for await loop over it has ended.
StreamOf(events) == [events |-> events, read |-> 0]
Exhausted(stream) == stream.read = Len(stream.events)
NextEvent(stream) == stream.events[stream.read + 1]

SccInit(messages) ==
  [pc |-> "idle", messages |-> messages, iteration |-> 0,
   currentMessages |-> messages,
   finalMeta |-> Undefined, finalStructuredContent |-> Undefined,
   finalWidgetId |-> Undefined,
   stream |-> StreamOf(<<>>), accumulatedContent |-> <<>>,
   toolCalls |-> <<>>, hasToolCalls |-> FALSE,
   k |-> 0, args |-> Undefined, resultText |-> <<>>,
   yielded |-> <<>>, error |-> <<>>]

\* catch (error) { throw new Error(`Failed to stream chat completion: ${...}`) }
SccFailure(message) == <<"Failed to stream chat completion: ">> \o message

TypeErrorMessage == <<"Cannot set properties of undefined">>

\* The generator runs only while its consumer awaits the next chunk.
SccRunning == SccScheduled /\ wrap.pc = "pulling" /\ scc.yielded = <<>>

\* yield chunk: the generator suspends with the chunk handed to the consumer.
Yield(frame, chunk) == [frame EXCEPT !.yielded = <<chunk>>]

\* while (iteration < maxIterations) { iteration++; await create({stream: true, ...})
SccRequest ==
  /\ SccRunning
  /\ scc.pc = "while"
  /\ WithinCap(scc.iteration)
  /\ scc' = [scc EXCEPT !.pc = "await_llm", !.iteration = @ + 1]
  /\ requests' = [requests EXCEPT !.scc = @ + 1]
  /\ UNCHANGED <<llm, gcc, wrap, emitted, delivered, subscribed, devMessage, devSession, titleLog, store, page, handlerLog>>

\* Mutant: the run is closed with a done chunk before the cap error is thrown.
SccCapExceededAfterDone ==
  /\ SccRunning
  /\ scc.pc = "while"
  /\ ~WithinCap(scc.iteration)
  /\ scc' = Yield([scc EXCEPT !.pc = "thrown", !.error = SccFailure(TooManyIterations)],
                  DoneChunk)
  /\ emitted' = Append(emitted, DoneChunk)
  /\ UNCHANGED <<llm, gcc, wrap, delivered, subscribed, devMessage, devSession, titleLog, store, page, handlerLog, requests>>

\* Mutant: the cap is checked before the tool calls of the round are run.
SccCapExceededBeforeTools ==
  /\ SccRunning
  /\ scc.pc \in {"while", "for"}
  /\ ~WithinCap(scc.iteration)
  /\ scc' = [scc EXCEPT !.pc = "thrown", !.error = SccFailure(TooManyIterations)]
  /\ UNCHANGED <<llm, gcc, wrap, emitted, delivered, subscribed, devMessage, devSession, titleLog, store, page, handlerLog, requests>>

\* throw new Error("Maximum tool call iterations exceeded")
SccCapExceeded ==
  /\ SccRunning
  /\ scc.pc = "while"
  /\ ~WithinCap(scc.iteration)
  /\ scc' = [scc EXCEPT !.pc = "thrown", !.error = SccFailure(TooManyIterations)]
  /\ UNCHANGED <<llm, gcc, wrap, emitted, delivered, subscribed, devMessage, devSession, titleLog, store, page, handlerLog, requests>>

\* The decision the stub takes in this round of the streaming run: the one it
\* took in the same round of the buffered run.
SccDecision == llm.decisions[scc.iteration]

\* The request rejects.
SccLLMFails ==
  /\ SccRunning
  /\ scc.pc = "await_llm"
  /\ scc.iteration <= Len(llm.decisions)
  /\ SccDecision.kind = "error"
  /\ scc' = [scc EXCEPT !.pc = "thrown", !.error = SccFailure(LLMErrorMessage)]
  /\ UNCHANGED <<llm, gcc, wrap, emitted, delivered, subscribed, devMessage, devSession, titleLog, store, page, handlerLog, requests>>

\* The request resolves to a stream; the round's locals are initialised.
SccStreamOpens ==
  /\ SccRunning
  /\ scc.pc = "await_llm"
  /\ scc.iteration <= Len(llm.decisions)
  /\ SccDecision.kind = "message"
  /\ \E style \in Styles :
       scc' = [scc EXCEPT
                 !.pc = "reading",
                 !.stream = StreamOf(Fragmented(SccDecision, style)),
                 !.accumulatedContent = <<>>,
                 !.toolCalls = <<>>,
                 !.hasToolCalls = FALSE]
  /\ UNCHANGED <<llm, gcc, wrap, emitted, delivered, subscribed, devMessage, devSession, titleLog, store, page, handlerLog, requests>>

\* One iteration of for await (const chunk of stream) whose deltas merge.
SccReadEvent ==
  /\ SccRunning
  /\ scc.pc = "reading"
  /\ ~Exhausted(scc.stream)
  /\ LET event == NextEvent(scc.stream)
         merged == ApplyDeltas(scc.toolCalls, event.tool_calls)
         read == [scc EXCEPT
                    !.stream.read = @ + 1,
                    !.hasToolCalls = HasToolCallsAfter(@, event),
                    !.toolCalls = merged.toolCalls]
     IN /\ merged.ok
        /\ IF event.content # <<>>
           THEN /\ scc' = Yield([read EXCEPT !.accumulatedContent = @ \o event.content],
                                ContentChunk(event.content))
                /\ emitted' = Append(emitted, ContentChunk(event.content))
           ELSE /\ scc' = read
                /\ UNCHANGED emitted
  /\ UNCHANGED <<llm, gcc, wrap, delivered, subscribed, devMessage, devSession, titleLog, store, page, handlerLog, requests>>

\* After the stream: yield the tool_call chunk.
SccYieldToolCalls ==
  /\ SccRunning
  /\ scc.pc = "reading"
  /\ Exhausted(scc.stream)
  /\ scc.hasToolCalls /\ HasCalls(scc.toolCalls)
  /\ scc' = Yield([scc EXCEPT !.pc = "push_assistant", !.stream = StreamOf(<<>>)],
                  ToolCallChunk(scc.toolCalls))
  /\ emitted' = Append(emitted, ToolCallChunk(scc.toolCalls))
  /\ UNCHANGED <<llm, gcc, wrap, delivered, subscribed, devMessage, devSession, titleLog, store, page, handlerLog, requests>>

\* Mutant: currentMessages is the caller's array itself, not a copy of it.
SccPushAssistantAliased ==
  /\ SccRunning
  /\ scc.pc = "push_assistant"
  /\ LET message == AssistantToolCalls(scc.accumulatedContent,
                       [j \in 1..Len(scc.toolCalls) |->
                          FunctionCall(scc.toolCalls[j].id, scc.toolCalls[j].name,
                                       scc.toolCalls[j].arguments)])
     IN  /\ scc' = [scc EXCEPT !.currentMessages = Append(@, message),
                               !.messages = Append(@, message),
                               !.k = 1,
                               !.pc = "for"]
         /\ wrap' = [wrap EXCEPT !.chatMessages = Append(@, message)]
  /\ UNCHANGED <<llm, gcc, emitted, delivered, subscribed, devMessage, devSession, titleLog, store, page, handlerLog, requests>>

\* currentMessages.push({ role: "assistant", content: accumulatedContent, tool_calls })
SccPushAssistant ==
  /\ SccRunning
  /\ scc.pc = "push_assistant"
  /\ scc' = [scc EXCEPT
               !.currentMessages =
                  Append(@, AssistantToolCalls(scc.accumulatedContent,
                              [j \in 1..Len(scc.toolCalls) |->
                                 FunctionCall(scc.toolCalls[j].id, scc.toolCalls[j].name,
                                              scc.toolCalls[j].arguments)])),
               !.k = 1,
               !.pc = "for"]
  /\ UNCHANGED <<llm, gcc, wrap, emitted, delivered, subscribed, devMessage, devSession, titleLog, store, page, handlerLog, requests>>

\* The tool is not registered: push the error message, continue with the next call.
SccToolNotFound ==
  /\ SccRunning
  /\ scc.pc = "for"
  /\ LET toolCall == CurrentCall(scc) IN
       /\ ~FindTool(toolCall.name).found
       /\ scc' = [scc EXCEPT
                    !.currentMessages =
                       Append(@, ToolMessage(NotFoundContent(toolCall.name),
                                             toolCall.id, toolCall.name)),
                    !.k = @ + 1,
                    !.pc = AfterCall(scc.k, scc.toolCalls)]
  /\ UNCHANGED <<llm, gcc, wrap, emitted, delivered, subscribed, devMessage, devSession, titleLog, store, page, handlerLog, requests>>

\* const args = toolCall.arguments ? JSON.parse(toolCall.arguments) : {};
SccParseArguments(arguments) ==
  IF arguments # <<>> THEN JSONParse(arguments)
  ELSE [ok |-> TRUE, value |-> Obj({}), message |-> <<>>]

\* JSON.parse throws: yield the error as tool_result.
SccArgsUnparsable ==
  /\ SccRunning
  /\ scc.pc = "for"
  /\ LET toolCall == CurrentCall(scc)
         parsed == SccParseArguments(toolCall.arguments)
         errorContent == ExecutionErrorContent(TRUE, parsed.message) IN
       /\ FindTool(toolCall.name).found
       /\ ~parsed.ok
       /\ scc' = Yield([scc EXCEPT !.pc = "push_result", !.resultText = errorContent],
                       ToolResultChunk(errorContent))
       /\ emitted' = Append(emitted, ToolResultChunk(errorContent))
  /\ UNCHANGED <<llm, gcc, wrap, delivered, subscribed, devMessage, devSession, titleLog, store, page, handlerLog, requests>>

\* await tool.handler(args, { authInfo }): the handler is invoked.
SccInvokeHandler ==
  /\ SccRunning
  /\ scc.pc = "for"
  /\ LET toolCall == CurrentCall(scc)
         parsed == SccParseArguments(toolCall.arguments) IN
       /\ FindTool(toolCall.name).found
       /\ parsed.ok
       /\ scc' = [scc EXCEPT !.pc = "await_tool", !.args = parsed.value]
       /\ handlerLog' = Append(handlerLog,
                               [run |-> "scc", id |-> toolCall.id,
                                name |-> toolCall.name, args |-> parsed.value])
  /\ UNCHANGED <<llm, gcc, wrap, emitted, delivered, subscribed, devMessage, devSession, titleLog, store, page, requests>>

\* The handler's promise resolves: capture the sticky fields, yield tool_result.
SccHandlerReturns ==
  /\ SccRunning
  /\ scc.pc = "await_tool"
  /\ LET toolCall == CurrentCall(scc)
         result == Handler(toolCall.name, scc.args) IN
       /\ result.kind = "result"
       /\ scc' = Yield([scc EXCEPT
                          !.finalMeta = StickyMeta(@, result),
                          !.finalWidgetId = StickyWidgetId(scc.finalMeta, @, result),
                          !.finalStructuredContent = StickyStructuredContent(@, result),
                          !.resultText = ResultText(result),
                          !.args = Undefined,
                          !.pc = "push_result"],
                       ToolResultChunk(ResultText(result)))
       /\ emitted' = Append(emitted, ToolResultChunk(ResultText(result)))
  /\ UNCHANGED <<llm, gcc, wrap, delivered, subscribed, devMessage, devSession, titleLog, store, page, handlerLog, requests>>

\* The handler throws or its promise rejects: yield the error as tool_result.
SccHandlerThrows ==
  /\ SccRunning
  /\ scc.pc = "await_tool"
  /\ LET toolCall == CurrentCall(scc)
         result == Handler(toolCall.name, scc.args)
         errorContent == ExecutionErrorContent(result.isError, result.message) IN
       /\ result.kind = "throw"
       /\ scc' = Yield([scc EXCEPT !.resultText = errorContent, !.args = Undefined,
                                   !.pc = "push_result"],
                       ToolResultChunk(errorContent))
       /\ emitted' = Append(emitted, ToolResultChunk(errorContent))
  /\ UNCHANGED <<llm, gcc, wrap, delivered, subscribed, devMessage, devSession, titleLog, store, page, handlerLog, requests>>

\* Resumed after the tool_result chunk: push the tool message.
SccPushResult ==
  /\ SccRunning
  /\ scc.pc = "push_result"
  /\ LET toolCall == CurrentCall(scc) IN
       scc' = [scc EXCEPT
                 !.currentMessages =
                    Append(@, ToolMessage(scc.resultText, toolCall.id, toolCall.name)),
                 !.resultText = <<>>,
                 !.k = @ + 1,
                 !.pc = AfterCall(scc.k, scc.toolCalls)]
  /\ UNCHANGED <<llm, gcc, wrap, emitted, delivered, subscribed, devMessage, devSession, titleLog, store, page, handlerLog, requests>>

NoToolCallsAssembled ==
  scc.pc = "reading" /\ Exhausted(scc.stream)
    /\ ~(scc.hasToolCalls /\ HasCalls(scc.toolCalls))

\* if (finalMeta || finalStructuredContent || finalWidgetId) yield metadata
SccYieldMetadata ==
  /\ SccRunning
  /\ NoToolCallsAssembled
  /\ AnySticky(scc)
  /\ LET chunk == MetadataChunk(scc.finalMeta, scc.finalStructuredContent,
                                scc.finalWidgetId) IN
       /\ scc' = Yield([scc EXCEPT !.pc = "yield_done", !.stream = StreamOf(<<>>)], chunk)
       /\ emitted' = Append(emitted, chunk)
  /\ UNCHANGED <<llm, gcc, wrap, delivered, subscribed, devMessage, devSession, titleLog, store, page, handlerLog, requests>>

\* yield { type: "done" }
SccYieldDone ==
  /\ SccRunning
  /\ \/ scc.pc = "yield_done"
     \/ /\ NoToolCallsAssembled
        /\ ~AnySticky(scc)
  /\ scc' = Yield([scc EXCEPT !.pc = "return", !.stream = StreamOf(<<>>)], DoneChunk)
  /\ emitted' = Append(emitted, DoneChunk)
  /\ UNCHANGED <<llm, gcc, wrap, delivered, subscribed, devMessage, devSession, titleLog, store, page, handlerLog, requests>>

\* Mutant: without the return the while loop goes on after "done".
SccReturnLoops ==
  /\ SccRunning
  /\ scc.pc = "return"
  /\ scc' = [scc EXCEPT !.pc = "while"]
  /\ UNCHANGED <<llm, gcc, wrap, emitted, delivered, subscribed, devMessage, devSession, titleLog, store, page, handlerLog, requests>>

\* return;
SccReturn ==
  /\ SccRunning
  /\ scc.pc = "return"
  /\ scc' = [scc EXCEPT !.pc = "returned"]
  /\ UNCHANGED <<llm, gcc, wrap, emitted, delivered, subscribed, devMessage, devSession, titleLog, store, page, handlerLog, requests>>

\* A delta addresses an entry the list does not hold: the TypeError is caught
\* by the outer catch and rethrown.
SccReassemblyThrows ==
  /\ SccRunning
  /\ scc.pc = "reading"
  /\ ~Exhausted(scc.stream)
  /\ LET event == NextEvent(scc.stream)
         merged == ApplyDeltas(scc.toolCalls, event.tool_calls) IN
       /\ ~merged.ok
       /\ scc' = [scc EXCEPT
                    !.stream.read = @ + 1,
                    !.hasToolCalls = HasToolCallsAfter(@, event),
                    !.toolCalls = merged.toolCalls,
                    !.pc = "thrown",
                    !.error = SccFailure(TypeErrorMessage)]
  /\ UNCHANGED <<llm, gcc, wrap, emitted, delivered, subscribed, devMessage, devSession, titleLog, store, page, handlerLog, requests>>

SccDone == scc.pc \in {"returned", "thrown"}

SccNext ==
  \/ SccRequest
  \/ SccCapExceeded
  \/ SccLLMFails
  \/ SccStreamOpens
  \/ SccReadEvent
  \/ SccYieldToolCalls
  \/ SccPushAssistant
  \/ SccToolNotFound
  \/ SccArgsUnparsable
  \/ SccInvokeHandler
  \/ SccHandlerReturns
  \/ SccHandlerThrows
  \/ SccPushResult
  \/ SccYieldMetadata
  \/ SccYieldDone
  \/ SccReturn

(***************************************************************************)
(* streamUserMessageById: the consumer of the streaming driver              *)
(***************************************************************************)
\* useState(false), useState(null): no call of a handler is in progress and no
\* run of the page is going on at the server.
IdlePage == [isStreaming |-> FALSE, pendingMessage |-> 0, calls |-> <<>>, runs |-> {}]

\* The tables of all users, empty, and no operation replied to yet.
EmptyStore ==
  [devSession |-> {}, devMessage |-> {}, nextSession |-> 1, nextMessage |-> 1,
   reply |-> [op |-> "none", userId |-> "", sessionId |-> 0, messageIds |-> {},
              ok |-> TRUE]]

NewConversation == <<"New conversation">>

\* The session row: its name and the id the next inserted message row gets.
SessionRow(name, nextId) == [name |-> name, nextId |-> nextId]

\* A devMessage row.
Row(id, role, content, structured_content, widget_id) ==
  [id |-> id, role |-> role, content |-> content,
   structured_content |-> structured_content, widget_id |-> widget_id]

\* The locals of the generator once it has read the session and its history.
WrapInit(chatMessages) ==
  [pc |-> "idle", chatMessages |-> chatMessages, sessionName |-> NewConversation,
   accumulatedContent |-> <<>>,
   finalMeta |-> Undefined, finalStructuredContent |-> Undefined,
   finalWidgetId |-> Undefined, assistantMessageId |-> 0, generatedName |-> <<>>,
   titleError |-> <<>>, error |-> <<>>]

\* Mutant: the fields are combined only when both are there.
CombinedStructuredContentOfBoth(finalStructuredContent, finalMeta) ==
  IF Truthy(finalStructuredContent) /\ Truthy(finalMeta)
  THEN Obj({e \in finalStructuredContent.f : e[1] # "_meta"} \cup {<<"_meta", finalMeta>>})
  ELSE Null

\* { ...(finalStructuredContent || {}), ...(finalMeta ? { _meta: finalMeta } : {}) }
CombinedStructuredContent(finalStructuredContent, finalMeta) ==
  IF Truthy(finalStructuredContent) \/ Truthy(finalMeta)
  THEN LET base == IF Truthy(finalStructuredContent) THEN finalStructuredContent.f ELSE {}
       IN Obj(IF Truthy(finalMeta)
              THEN {e \in base : e[1] # "_meta"} \cup {<<"_meta", finalMeta>>}
              ELSE base)
  ELSE Null

\* Mutant: the row is inserted without the accumulated content.
AssistantRowNoContent(id, frame) ==
  Row(id, "assistant", <<>>,
      CombinedStructuredContent(frame.finalStructuredContent, frame.finalMeta),
      IF Truthy(frame.finalWidgetId) THEN frame.finalWidgetId ELSE Null)

\* The row inserted on "done".
AssistantRow(id, frame) ==
  Row(id, "assistant", frame.accumulatedContent,
      CombinedStructuredContent(frame.finalStructuredContent, frame.finalMeta),
      IF Truthy(frame.finalWidgetId) THEN frame.finalWidgetId ELSE Null)

\* emit.next(event) / emit.error(error): an observer that has unsubscribed
\* receives nothing more.
EmitNext(event) == IF subscribed THEN Append(delivered, event) ELSE delivered

\* The events of the subscription
DoneWithId(id) == [type |-> "done", assistantMessageId |-> id]
ErrorEvent(message) == [type |-> "error", message |-> message]

\* for await (const chunk of streamChatCompletion(chatMessages, userId))
WrapStart ==
  /\ SccScheduled
  /\ wrap.pc = "idle"
  /\ wrap' = [wrap EXCEPT !.pc = "pulling"]
  /\ scc' = [SccInit(wrap.chatMessages) EXCEPT !.pc = "while"]
  /\ UNCHANGED <<llm, gcc, emitted, delivered, subscribed, devMessage, devSession, titleLog, store, page, handlerLog, requests>>

\* A chunk other than "done": forward it, accumulate content, store metadata.
WrapForward ==
  /\ SccScheduled
  /\ wrap.pc = "pulling"
  /\ scc.yielded # <<>>
  /\ LET chunk == Head(scc.yielded) IN
       /\ chunk.type # "done"
       /\ delivered' = EmitNext(chunk)
       /\ wrap' =
            IF chunk.type = "content"
            THEN [wrap EXCEPT !.accumulatedContent = @ \o chunk.content]
            ELSE IF chunk.type = "metadata"
            THEN [wrap EXCEPT
                    !.finalMeta = chunk.metadata.meta,
                    !.finalStructuredContent = chunk.metadata.structuredContent,
                    !.finalWidgetId = chunk.metadata.widgetId]
            ELSE wrap
  /\ scc' = [scc EXCEPT !.yielded = <<>>]
  /\ UNCHANGED <<llm, gcc, emitted, subscribed, devMessage, devSession, titleLog, store, page, handlerLog, requests>>

\* The "done" chunk is forwarded like every chunk: yield chunk.
WrapForwardDone ==
  /\ SccScheduled
  /\ wrap.pc = "pulling"
  /\ scc.yielded # <<>>
  /\ Head(scc.yielded).type = "done"
  /\ delivered' = EmitNext(Head(scc.yielded))
  /\ wrap' = [wrap EXCEPT !.pc = "persist"]
  /\ scc' = [scc EXCEPT !.yielded = <<>>]
  /\ UNCHANGED <<llm, gcc, emitted, subscribed, devMessage, devSession, titleLog, store, page, handlerLog, requests>>

\* previousMessages.length === 3 && session.name === "New conversation"
TitleDue(frame) ==
  Len(frame.chatMessages) = 3 /\ frame.sessionName = NewConversation

\* Resumed after the forwarded "done": insert the assistant row.
PersistAssistant ==
  /\ devMessage' = Append(devMessage, AssistantRow(devSession.nextId, wrap))
  /\ devSession' = [devSession EXCEPT !.nextId = @ + 1]

\* The assistant row is inserted and no session name is due.
WrapPersist ==
  /\ SccScheduled
  /\ wrap.pc = "persist"
  /\ ~TitleDue(wrap)
  /\ PersistAssistant
  /\ wrap' = [wrap EXCEPT !.pc = "yield_id", !.assistantMessageId = devSession.nextId]
  /\ UNCHANGED <<llm, gcc, scc, emitted, delivered, subscribed, titleLog, store, page, handlerLog, requests>>

\* yield { type: "done", assistantMessageId: assistantMessage.id }
WrapYieldId ==
  /\ wrap.pc = "yield_id"
  /\ delivered' = EmitNext(DoneWithId(wrap.assistantMessageId))
  /\ wrap' = [wrap EXCEPT !.pc = "pulling"]
  /\ UNCHANGED <<llm, gcc, scc, emitted, subscribed, devMessage, devSession, titleLog, store, page, handlerLog, requests>>

\* The generator returned: the for await loop ends.
WrapReturns ==
  /\ SccScheduled
  /\ wrap.pc = "pulling"
  /\ scc.pc = "returned"
  /\ wrap' = [wrap EXCEPT !.pc = "returned"]
  /\ UNCHANGED <<llm, gcc, scc, emitted, delivered, subscribed, devMessage, devSession, titleLog, store, page, handlerLog,
                 requests>>

\* Mutant: the partial message is saved and announced before rethrowing.
WrapRethrowsSavingPartial ==
  /\ SccScheduled
  /\ wrap.pc = "pulling"
  /\ scc.pc = "thrown"
  /\ wrap' = [wrap EXCEPT !.pc = "thrown", !.error = scc.error]
  /\ devMessage' = Append(devMessage, AssistantRow(devSession.nextId, wrap))
  /\ devSession' = [devSession EXCEPT !.nextId = @ + 1]
  /\ delivered' = delivered \o <<DoneWithId(devSession.nextId), ErrorEvent(scc.error)>>
  /\ UNCHANGED <<llm, gcc, scc, emitted, subscribed, titleLog, store, page, handlerLog, requests>>

\* catch (error) { ... throw error; } and the subscription's emit.error(error)
WrapRethrows ==
  /\ SccScheduled
  /\ wrap.pc = "pulling"
  /\ scc.pc = "thrown"
  /\ wrap' = [wrap EXCEPT !.pc = "thrown", !.error = scc.error]
  /\ delivered' = EmitNext(ErrorEvent(scc.error))
  /\ UNCHANGED <<llm, gcc, scc, emitted, subscribed, devMessage, devSession, titleLog, store, page, handlerLog, requests>>

WrapNext ==
  \/ WrapStart
  \/ WrapForward
  \/ WrapForwardDone
  \/ WrapPersist
  \/ WrapYieldId
  \/ WrapReturns
  \/ WrapRethrows

(***************************************************************************)
(* Both drivers on one conversation and one LLM stub                       *)
(***************************************************************************)
Init ==
  /\ llm = [decisions |-> <<>>, freeCalls |-> 0, repeating |-> FALSE]
  /\ \E m \in InitialMessages :
       /\ gcc = GccInit(m)
       /\ scc = SccInit(m)
       /\ wrap = WrapInit(m)
  /\ emitted = <<>>
  /\ delivered = <<>>
  /\ subscribed = TRUE
  /\ devMessage = <<>>
  /\ devSession = SessionRow(NewConversation, 1)
  /\ titleLog = <<>>
  /\ store = EmptyStore
  /\ page = IdlePage
  /\ handlerLog = <<>>
  /\ requests = [gcc |-> 0, scc |-> 0]

Next == GccNext \/ SccNext \/ WrapNext

Spec == Init /\ [][Next]_vars

(***************************************************************************)
(* One streaming round on an arbitrary provider stream: the reading loop   *)
(* of streamChatCompletion applied to every event sequence within bounds.  *)
(***************************************************************************)
MaxEvents == 3

IdA == <<"a">>
IdB == <<"b">>

\* The tool-call deltas a provider event may carry for one index.
DeltasFor(index) ==
  { Delta(index, IdA, "f", <<>>),
    Delta(index, IdB, "g", <<"x">>),
    Delta(index, <<>>, "", <<"x">>),
    Delta(index, <<>>, "", <<"y">>),
    Delta(index, <<>>, "", <<>>),
    NonFunctionDelta(index, IdB) }

ProviderEvents ==
  { Event(<<>>, <<d>>, "null") : d \in DeltasFor(0) \cup DeltasFor(1) }
    \cup { Event(<<"c">>, <<>>, "null"),
           Event(<<>>, <<>>, "tool_calls"),
           Event(<<"c">>, <<Delta(0, <<>>, "", <<"x">>)>>, "null"),
           Event(<<"c">>, <<Delta(1, IdB, "g", <<>>)>>, "null"),
           Event(<<>>, <<Delta(0, IdA, "f", <<>>), Delta(1, IdB, "g", <<>>)>>, "null") }

ProviderStreams == UNION { [1..n -> ProviderEvents] : n \in 0..MaxEvents }

InitRound ==
  /\ llm = [decisions |-> <<>>, freeCalls |-> 0, repeating |-> FALSE]
  /\ \E m \in InitialMessages, events \in ProviderStreams :
       /\ gcc = GccInit(m)
       /\ wrap = [WrapInit(m) EXCEPT !.pc = "pulling"]
       /\ scc = [SccInit(m) EXCEPT !.pc = "reading", !.iteration = 1,
                                   !.stream = StreamOf(events)]
  /\ emitted = <<>>
  /\ delivered = <<>>
  /\ subscribed = TRUE
  /\ devMessage = <<>>
  /\ devSession = SessionRow(NewConversation, 1)
  /\ titleLog = <<>>
  /\ store = EmptyStore
  /\ page = IdlePage
  /\ handlerLog = <<>>
  /\ requests = [gcc |-> 0, scc |-> 1]

NextRound ==
  \/ SccReadEvent
  \/ SccReassemblyThrows
  \/ SccYieldToolCalls
  \/ WrapForward

SpecRound == InitRound /\ [][NextRound]_vars

(***************************************************************************)
(* Properties                                                              *)
(***************************************************************************)
\* The stub's decision of round r carries tool calls / is a final answer.
ToolCallRound(r) ==
  /\ r \in 1..Len(llm.decisions)
  /\ llm.decisions[r].kind = "message"
  /\ Len(llm.decisions[r].tool_calls) > 0

FinalRound(r) ==
  /\ r \in 1..Len(llm.decisions)
  /\ llm.decisions[r].kind = "message"
  /\ Len(llm.decisions[r].tool_calls) = 0

\* Length of the transcript after the first n rounds, all of them tool-call
\* rounds: one assistant message and one tool message per call, per round.
RECURSIVE TranscriptLen(_, _)
TranscriptLen(messages, n) ==
  IF n = 0 THEN Len(messages)
  ELSE TranscriptLen(messages, n - 1) + 1 + Len(llm.decisions[n].tool_calls)

C2_NoToolCallsTerminates ==
  /\ FinalRound(gcc.iteration) =>
       /\ gcc.pc = "returned"
       /\ requests.gcc = gcc.iteration
       /\ gcc.result[1].content = llm.decisions[gcc.iteration].content
       /\ Len(gcc.currentMessages) = TranscriptLen(gcc.messages, gcc.iteration - 1)
       /\ gcc.currentMessages[Len(gcc.currentMessages)].role = "tool"
            \/ gcc.currentMessages = gcc.messages
       /\ gcc.iteration = 1 => gcc.currentMessages = gcc.messages
  /\ (FinalRound(scc.iteration) /\ scc.pc # "await_llm") =>
       /\ scc.pc \in {"reading", "yield_done", "return", "returned"}
       /\ requests.scc = scc.iteration
       /\ Len(scc.currentMessages) = TranscriptLen(scc.messages, scc.iteration - 1)
       /\ scc.iteration = 1 => scc.currentMessages = scc.messages
       /\ scc.toolCalls = <<>>
       /\ scc.pc # "reading" =>
            scc.accumulatedContent = llm.decisions[scc.iteration].content

C2_Witness ==
  /\ gcc.pc = "returned" /\ scc.pc = "returned"
  /\ gcc.iteration = 2 /\ scc.iteration = 2
  /\ FinalRound(2)
  /\ gcc.result[1].content = <<"o", "k">>

ToolMessagesFor(messages, id) ==
  {i \in 1..Len(messages) : messages[i].role = "tool" /\ messages[i].tool_call_id = id}

\* The calls of the round a driver is in that it has dealt with.
DealtWithInRound(frame) ==
  IF frame.pc \in {"for", "await_tool", "push_result"} THEN frame.k - 1
  ELSE IF frame.pc \in {"while", "thrown"} /\ ToolCallRound(frame.iteration)
  THEN Len(llm.decisions[frame.iteration].tool_calls)
  ELSE 0

\* Call j of round r is one the driver has dealt with: a call of an earlier
\* round or one of the first calls of its current round.
DealtWith(frame, r, j) ==
  r < frame.iteration \/ (r = frame.iteration /\ j <= DealtWithInRound(frame))

Registered(call) ==
  call.function.name \in {"add", "show_todos", "lookup", "boom", "reject"}

\* The buffered driver parses every argument string; the streaming driver
\* takes the empty string for {} without parsing it.
ParseFails(call, streaming) ==
  /\ ~JSONParse(call.function.arguments).ok
  /\ ~(streaming /\ call.function.arguments = <<>>)

ParsedArgs(call) ==
  IF call.function.arguments = <<>> THEN Obj({})
  ELSE JSONParse(call.function.arguments).value

HandlerThrows(call, streaming) ==
  /\ ~ParseFails(call, streaming)
  /\ Handler(call.function.name, ParsedArgs(call)).kind = "throw"

Failing(call, streaming) ==
  Registered(call) /\ (ParseFails(call, streaming) \/ HandlerThrows(call, streaming))

\* The message of the error a failing call raises.
FailureMessage(call, streaming) ==
  IF ParseFails(call, streaming) THEN JSONParse(call.function.arguments).message
  ELSE Handler(call.function.name, ParsedArgs(call)).message

\* The failing call raises an Error instance: JSON.parse throws a SyntaxError,
\* a handler may throw or reject with any value.
RaisesErrorInstance(call, streaming) ==
  ParseFails(call, streaming) \/ Handler(call.function.name, ParsedArgs(call)).isError

\* A run ends by returning on a final answer, by the iteration cap or by a
\* failed LLM request, and in no other way.
EndsOnlyAsSpecified(frame, prefix) ==
  /\ frame.pc = "returned" => FinalRound(frame.iteration)
  /\ frame.pc = "thrown" =>
       \/ frame.error = <<prefix, "Maximum tool call iterations exceeded">>
            /\ frame.iteration = 10
       \/ frame.error = <<prefix>> \o LLMErrorMessage
            /\ llm.decisions[frame.iteration].kind = "error"

FailingCallsRecovered(frame, streaming, anyValue) ==
  \A r \in 1..Len(llm.decisions) : \A j \in 1..Len(llm.decisions[r].tool_calls) :
    LET call == llm.decisions[r].tool_calls[j]
        answers == ToolMessagesFor(frame.currentMessages, call.id)
    IN  /\ Cardinality(answers) <= 1
        /\ DealtWith(frame, r, j) => answers # {}
        /\ Failing(call, streaming) =>
             \A i \in answers :
               /\ IsErrorObject(frame.currentMessages[i].content)
               /\ Includes(ParseErrorObject(frame.currentMessages[i].content),
                           IF anyValue \/ RaisesErrorInstance(call, streaming)
                           THEN FailureMessage(call, streaming)
                           ELSE <<"Unknown error">>)

\* C3: a tool call whose arguments fail to parse or whose handler throws or
\* rejects gets exactly one tool message under the call's id, an object
\* {error: <string>} whose string holds the error's message when the value
\* thrown is an Error instance and "Unknown error" when it is any other
\* value; the driver goes on with the next call and the next round, and no
\* run ends because of a tool call.
C3_ToolFailureRecovered ==
  /\ FailingCallsRecovered(gcc, FALSE, FALSE)
  /\ FailingCallsRecovered(scc, TRUE, FALSE)
  /\ EndsOnlyAsSpecified(gcc, "Failed to get chat completion: ")
  /\ EndsOnlyAsSpecified(scc, "Failed to stream chat completion: ")

\* C3 as stated: the string of the tool message holds the message of whatever
\* the handler threw or rejected with.
C3_AnyThrownMessageKept ==
  /\ FailingCallsRecovered(gcc, FALSE, TRUE)
  /\ FailingCallsRecovered(scc, TRUE, TRUE)
  /\ EndsOnlyAsSpecified(gcc, "Failed to get chat completion: ")
  /\ EndsOnlyAsSpecified(scc, "Failed to stream chat completion: ")

HasFailureMessage(frame, name, message) ==
  \E i \in 1..Len(frame.currentMessages) :
    LET m == frame.currentMessages[i] IN
      /\ m.role = "tool" /\ m.name = <<name>>
      /\ IsErrorObject(m.content)
      /\ ParseErrorObject(m.content) = message

C3_Witness ==
  /\ gcc.pc = "returned" /\ scc.pc = "returned"
  /\ gcc.iteration = 2 /\ scc.iteration = 2
  /\ Len(llm.decisions[1].tool_calls) = 2
  /\ llm.decisions[1].tool_calls[1].function.name = "add"
  /\ HasFailureMessage(gcc, "add", <<"Error executing tool: ">> \o UnexpectedEnd)
  /\ HasFailureMessage(scc, "add", <<"Error executing tool: ">> \o UnexpectedEnd)
  /\ HasFailureMessage(gcc, "reject", <<"Error executing tool: ", "Unknown error">>)
  /\ HasFailureMessage(scc, "reject", <<"Error executing tool: ", "Unknown error">>)

UnregisteredCallsAnswered(frame) ==
  \A r \in 1..Len(llm.decisions) : \A j \in 1..Len(llm.decisions[r].tool_calls) :
    LET call == llm.decisions[r].tool_calls[j]
        answers == ToolMessagesFor(frame.currentMessages, call.id)
    IN  ~Registered(call) =>
          /\ DealtWith(frame, r, j) => Cardinality(answers) = 1
          /\ \A i \in answers :
               /\ IsErrorObject(frame.currentMessages[i].content)
               /\ ParseErrorObject(frame.currentMessages[i].content) =
                    <<"Tool ", call.function.name, " not found">>

\* C4: a tool call naming no registered tool invokes no handler and gets a
\* tool message under its id whose content parses to
\* {error: "Tool <name> not found"}; the run goes on with the rest of the
\* batch and the next round.
C4_ToolNotFound ==
  /\ UnregisteredCallsAnswered(gcc)
  /\ UnregisteredCallsAnswered(scc)
  /\ \A e \in 1..Len(handlerLog) :
       handlerLog[e].name \in {"add", "show_todos", "lookup", "boom", "reject"}
  /\ EndsOnlyAsSpecified(gcc, "Failed to get chat completion: ")
  /\ EndsOnlyAsSpecified(scc, "Failed to stream chat completion: ")

C4_Witness ==
  /\ gcc.pc = "returned" /\ scc.pc = "returned"
  /\ gcc.iteration = 2 /\ scc.iteration = 2
  /\ Len(llm.decisions[1].tool_calls) = 2
  /\ llm.decisions[1].tool_calls[1].function.name = "missing"
  /\ HasFailureMessage(gcc, "missing", <<"Tool ", "missing", " not found">>)
  /\ HasFailureMessage(scc, "missing", <<"Tool ", "missing", " not found">>)
  /\ Len(gcc.currentMessages) = Len(gcc.messages) + 3
  /\ Len(scc.currentMessages) = Len(scc.messages) + 3

ByGcc(entry) == entry.run = "gcc"
ByScc(entry) == entry.run = "scc"

\* The handler invocations of a run that have settled, in execution order:
\* all the run has made but the one it is waiting for.
Settled(frame, invocations) ==
  IF frame.pc = "await_tool"
  THEN SubSeq(invocations, 1, Len(invocations) - 1)
  ELSE invocations

\* The value of a field in the first tool result, in execution order, that
\* carries one; a handler that throws produces no result.
RECURSIVE FirstCarried(_, _)
FirstCarried(invocations, field) ==
  IF invocations = <<>> THEN Undefined
  ELSE LET result == Handler(Head(invocations).name, Head(invocations).args) IN
         IF result.kind = "result" /\ Truthy(result[field])
         THEN result[field]
         ELSE FirstCarried(Tail(invocations), field)

MetadataChunks(chunks) ==
  {i \in 1..Len(chunks) : chunks[i].type = "metadata"}

CarriesFunction(delta) == delta.hasFunction

\* The function tool-call deltas of the events read so far, in arrival order.
ConsumedDeltas ==
  SelectSeq(Flatten([e \in 1..scc.stream.read |-> scc.stream.events[e].tool_calls]),
            CarriesFunction)

\* Every index is introduced after all the smaller ones.
InIncreasingOrder(deltas) ==
  \A p \in 1..Len(deltas) : \A i \in 0..(deltas[p].index - 1) :
    \E q \in 1..(p - 1) : deltas[q].index = i

RECURSIVE ArgumentsOf(_, _)
ArgumentsOf(deltas, i) ==
  IF deltas = <<>> THEN <<>>
  ELSE (IF Head(deltas).index = i THEN Head(deltas).arguments ELSE <<>>)
       \o ArgumentsOf(Tail(deltas), i)

RECURSIVE LastId(_, _)
LastId(deltas, i) ==
  IF deltas = <<>> THEN <<>>
  ELSE LET last == deltas[Len(deltas)] IN
         IF last.index = i /\ last.id # <<>> THEN last.id
         ELSE LastId(SubSeq(deltas, 1, Len(deltas) - 1), i)

RECURSIVE LastName(_, _)
LastName(deltas, i) ==
  IF deltas = <<>> THEN ""
  ELSE LET last == deltas[Len(deltas)] IN
         IF last.index = i /\ last.name # "" THEN last.name
         ELSE LastName(SubSeq(deltas, 1, Len(deltas) - 1), i)

C7_StreamingEquivalence ==
  (gcc.pc = "returned" /\ wrap.pc = "returned") =>
    /\ gcc.result[1].content = wrap.accumulatedContent
    /\ gcc.result[1].structuredContent = wrap.finalStructuredContent
    /\ gcc.result[1].widgetId = wrap.finalWidgetId

\* The ids of the tool calls the stub has reported, in the order reported.
ReportedIds ==
  LET calls == Flatten([r \in 1..Len(llm.decisions) |-> llm.decisions[r].tool_calls])
  IN  [j \in 1..Len(calls) |-> calls[j].id]

IsToolMessage(message) == message.role = "tool"

\* The tool_call_ids of the tool messages of a transcript, in order.
ToolIds(messages) ==
  LET answers == SelectSeq(messages, IsToolMessage)
  IN  [i \in 1..Len(answers) |-> answers[i].tool_call_id]

PositionIn(ids, id) == CHOOSE p \in 1..Len(ids) : ids[p] = id

\* Each handler invocation of a run came after the invocations of earlier
\* calls and after every earlier call had its tool message; the call being
\* waited for is the first one without a tool message.
InvokedInTurn(frame, invocations) ==
  LET reported == ReportedIds
      answered == Len(ToolIds(frame.currentMessages))
  IN  /\ \A e \in 1..Len(invocations) :
           /\ \E p \in 1..Len(reported) : reported[p] = invocations[e].id
           /\ PositionIn(reported, invocations[e].id) <= answered + 1
           /\ e > 1 => PositionIn(reported, invocations[e - 1].id)
                         < PositionIn(reported, invocations[e].id)
      /\ frame.pc = "await_tool" =>
           /\ invocations # <<>>
           /\ PositionIn(reported, invocations[Len(invocations)].id) = answered + 1

IsToolResult(chunk) == chunk.type = "tool_result"

IsAnswerOfRegistered(message) ==
  /\ message.role = "tool"
  /\ message.name \in {<<"add">>, <<"show_todos">>, <<"lookup">>, <<"boom">>, <<"reject">>}

\* The tool_result chunks carry, in order, the contents of the tool messages
\* of the registered calls; the last chunk may be ahead of its message.
ResultChunksInOrder ==
  LET results == SelectSeq(emitted, IsToolResult)
      answers == SelectSeq(scc.currentMessages, IsAnswerOfRegistered)
  IN  /\ Len(results) = Len(answers) + (IF scc.pc = "push_result" THEN 1 ELSE 0)
      /\ \A i \in 1..Len(answers) : results[i].content = answers[i].content

\* C8: the tool messages of a run are filed in the order the LLM reported the
\* calls, a handler is invoked only when every earlier call has its tool
\* message, handlers are invoked in the reported order, and the tool_result
\* chunks of the streaming run follow the same order.
C8_BatchOrder ==
  /\ IsPrefix(ToolIds(gcc.currentMessages), ReportedIds)
  /\ IsPrefix(ToolIds(scc.currentMessages), ReportedIds)
  /\ InvokedInTurn(gcc, SelectSeq(handlerLog, ByGcc))
  /\ InvokedInTurn(scc, SelectSeq(handlerLog, ByScc))
  /\ ResultChunksInOrder

\* Both runs executed the batch lookup, boom and returned.
C8_Witness ==
  /\ gcc.pc = "returned" /\ scc.pc = "returned"
  /\ Len(llm.decisions) = 2
  /\ Len(llm.decisions[1].tool_calls) = 2
  /\ llm.decisions[1].tool_calls[1].function.name = "lookup"
  /\ llm.decisions[1].tool_calls[2].function.name = "boom"
  /\ Len(handlerLog) = 4
  /\ ToolIds(gcc.currentMessages) = ReportedIds
  /\ ToolIds(scc.currentMessages) = ReportedIds
  /\ Len(SelectSeq(emitted, IsToolResult)) = 2

\* Every tool message answers a tool call of an assistant message before it.
ToolMessagesAnswerCalls(messages) ==
  \A i \in 1..Len(messages) :
    messages[i].role = "tool" =>
      \E p \in 1..(i - 1) :
        /\ messages[p].role = "assistant"
        /\ \E j \in 1..Len(messages[p].tool_calls) :
             messages[p].tool_calls[j].id = messages[i].tool_call_id

\* The tool-call rounds a run has completed.
CompletedRounds(frame) ==
  IF frame.pc = "while" \/ (frame.pc = "thrown" /\ ToolCallRound(frame.iteration))
  THEN frame.iteration
  ELSE IF frame.iteration > 0 THEN frame.iteration - 1 ELSE 0

\* Each completed round added the assistant message with the batch as the LLM
\* reported it, followed by one tool message per call.
RoundsRecorded(frame) ==
  /\ \A q \in 1..CompletedRounds(frame) :
       LET base == TranscriptLen(frame.messages, q - 1)
           calls == llm.decisions[q].tool_calls
       IN  /\ Len(frame.currentMessages) >= base + 1 + Len(calls)
           /\ frame.currentMessages[base + 1].role = "assistant"
           /\ frame.currentMessages[base + 1].tool_calls = calls
           /\ \A j \in 1..Len(calls) :
                /\ frame.currentMessages[base + 1 + j].role = "tool"
                /\ frame.currentMessages[base + 1 + j].tool_call_id = calls[j].id
  /\ frame.pc \in {"while", "await_llm", "returned", "thrown"} =>
       Len(frame.currentMessages) = TranscriptLen(frame.messages, CompletedRounds(frame))
  /\ SubSeq(frame.currentMessages, 1, Len(frame.messages)) = frame.messages

\* C9: in both drivers every tool message carries the id of a tool call of
\* an earlier assistant message, and every completed round with a batch of k
\* calls has added exactly k+1 messages: the assistant message holding the
\* batch verbatim, then one tool message per call.
C9_TranscriptWellFormed ==
  /\ ToolMessagesAnswerCalls(gcc.currentMessages)
  /\ ToolMessagesAnswerCalls(scc.currentMessages)
  /\ RoundsRecorded(gcc)
  /\ RoundsRecorded(scc)

C9_Witness ==
  /\ gcc.pc = "while" /\ scc.pc = "while"
  /\ gcc.iteration = 2 /\ scc.iteration = 2
  /\ Len(llm.decisions[1].tool_calls) = 2 /\ Len(llm.decisions[2].tool_calls) = 1
  /\ Len(gcc.currentMessages) = Len(gcc.messages) + 5
  /\ Len(scc.currentMessages) = Len(scc.messages) + 5
  /\ scc.currentMessages[Len(scc.messages) + 1].tool_calls = llm.decisions[1].tool_calls

DoneChunks(chunks) == {i \in 1..Len(chunks) : chunks[i].type = "done"}

IsToolCall(chunk) == chunk.type = "tool_call"
IsToolChunk(chunk) == chunk.type \in {"tool_call", "tool_result"}

\* The calls among the first n of round r that are executed (their tool is
\* registered), and those whose handler is invoked (their arguments parse).
ExecutedAmong(r, n) ==
  {j \in 1..n : Registered(llm.decisions[r].tool_calls[j])}

InvokedAmong(r, n) ==
  {j \in ExecutedAmong(r, n) : ~ParseFails(llm.decisions[r].tool_calls[j], TRUE)}

\* How many calls of its current round the streaming driver has started,
\* and for how many it has yielded the tool_result chunk.
StartedInRound ==
  IF scc.pc = "for" THEN scc.k - 1
  ELSE IF scc.pc \in {"await_tool", "push_result"} THEN scc.k
  ELSE IF scc.pc \in {"while", "thrown"} /\ ToolCallRound(scc.iteration)
  THEN Len(llm.decisions[scc.iteration].tool_calls)
  ELSE 0

ReportedInRound ==
  IF scc.pc = "await_tool" THEN scc.k - 1 ELSE StartedInRound

\* The tool_call and tool_result chunks a tool-call round yields once the
\* first n of its calls have been reported.
RoundChunkTypes(r, n) ==
  <<"tool_call">> \o [i \in 1..Cardinality(ExecutedAmong(r, n)) |-> "tool_result"]

ExpectedChunkTypes ==
  Flatten([r \in 1..scc.iteration |->
             IF ~ToolCallRound(r) THEN <<>>
             ELSE IF r < scc.iteration
             THEN RoundChunkTypes(r, Len(llm.decisions[r].tool_calls))
             ELSE IF scc.pc \in {"await_llm", "reading"} THEN <<>>
             ELSE RoundChunkTypes(r, ReportedInRound)])

RECURSIVE SumOver(_, _)
SumOver(f, n) == IF n = 0 THEN 0 ELSE f[n] + SumOver(f, n - 1)

\* The handler invocations the streaming run has made up to its position.
ExpectedInvocations ==
  SumOver([r \in 1..scc.iteration |->
             IF ~ToolCallRound(r) THEN 0
             ELSE IF r < scc.iteration
             THEN Cardinality(InvokedAmong(r, Len(llm.decisions[r].tool_calls)))
             ELSE Cardinality(InvokedAmong(r, StartedInRound))],
          scc.iteration)

\* C11: at every point of the streaming run the tool_call and tool_result
\* chunks emitted are, round by round, one tool_call chunk carrying the whole
\* batch followed by one tool_result chunk per executed call; the tool_call
\* chunk is not out while the stream is read and is out before the first
\* handler of the round is invoked, and a call's tool_result chunk is out
\* before its tool message is appended and before the next call starts.
C11_ToolChunksOrder ==
  LET got == SelectSeq(emitted, IsToolChunk)
      batches == SelectSeq(emitted, IsToolCall)
  IN  /\ [i \in 1..Len(got) |-> got[i].type] = ExpectedChunkTypes
      /\ \A q \in 1..Len(batches) :
           /\ ToolCallRound(q)
           /\ batches[q].toolCalls =
                [j \in 1..Len(llm.decisions[q].tool_calls) |->
                   [id |-> llm.decisions[q].tool_calls[j].id,
                    name |-> llm.decisions[q].tool_calls[j].function.name,
                    arguments |-> llm.decisions[q].tool_calls[j].function.arguments]]
      /\ Len(SelectSeq(handlerLog, ByScc)) = ExpectedInvocations
      /\ scc.pc = "push_result" =>
           Len(scc.currentMessages)
             = TranscriptLen(scc.messages, scc.iteration - 1) + 1 + (scc.k - 1)

\* The second call of a batch has failed in its handler after the first
\* failed to parse: both tool_result chunks are out, one tool message is filed.
C11_Witness ==
  /\ scc.pc = "push_result" /\ scc.k = 2 /\ scc.iteration = 1
  /\ Len(llm.decisions[1].tool_calls) = 2
  /\ llm.decisions[1].tool_calls[1].function.arguments = <<"{">>
  /\ llm.decisions[1].tool_calls[2].function.name = "boom"
  /\ [i \in 1..Len(emitted) |-> emitted[i].type] = <<"tool_call", "tool_result", "tool_result">>
  /\ Len(scc.currentMessages) = Len(scc.messages) + 2

IsContent(chunk) == chunk.type = "content"

\* The concatenation, in order, of the content of the content chunks.
ContentOf(chunks) ==
  LET contents == SelectSeq(chunks, IsContent)
  IN  Flatten([i \in 1..Len(contents) |-> contents[i].content])

CarriesMessageId(event) == "assistantMessageId" \in DOMAIN event

AssistantRows == {i \in 1..Len(devMessage) : devMessage[i].role = "assistant"}

\* C12: a run of streamUserMessageById persists at most one assistant row;
\* when it has ended successfully it has persisted exactly one, whose content
\* is the concatenation of the content chunks delivered, and it has delivered
\* exactly one done chunk with an assistantMessageId; that chunk is delivered
\* only when the row is in the table and carries the row's id.
C12_OneAssistantMessage ==
  /\ Cardinality(AssistantRows) <= 1
  /\ \A i \in 1..Len(delivered) :
       CarriesMessageId(delivered[i]) =>
         /\ delivered[i].type = "done"
         /\ \E r \in AssistantRows : devMessage[r].id = delivered[i].assistantMessageId
         /\ \A j \in 1..Len(delivered) : CarriesMessageId(delivered[j]) => j = i
  /\ wrap.pc = "returned" =>
       /\ Cardinality(AssistantRows) = 1
       /\ \A r \in AssistantRows : devMessage[r].content = ContentOf(delivered)
       /\ \E i \in 1..Len(delivered) : CarriesMessageId(delivered[i])

\* Content came in a tool-call round and in the final round.
C12_Witness ==
  /\ wrap.pc = "returned"
  /\ Len(devMessage) = 1
  /\ devMessage[1].content = <<"h", "o", "k">>
  /\ delivered[Len(delivered)] = [type |-> "done", assistantMessageId |-> devMessage[1].id]

\* C13: the events delivered to the subscriber in a successful run hold
\* exactly one done chunk, and it is the last event.
C13_DoneOnceAndLast ==
  wrap.pc = "returned" =>
    /\ Cardinality(DoneChunks(delivered)) = 1
    /\ delivered[Len(delivered)].type = "done"

\* C14: when the run fails no assistant row is persisted, no done chunk is
\* delivered, and the subscriber's last and only error event carries the
\* failure (the iteration cap or the failed LLM call); an error event is
\* delivered only by a failed run.
C14_FailedRun ==
  /\ scc.pc = "thrown" =>
       /\ AssistantRows = {}
       /\ DoneChunks(delivered) = {}
       /\ wrap.pc \in {"pulling", "thrown"}
  /\ wrap.pc = "thrown" =>
       /\ scc.pc = "thrown"
       /\ delivered # <<>>
       /\ delivered[Len(delivered)] = [type |-> "error", message |-> scc.error]
       /\ scc.error \in { <<"Failed to stream chat completion: ",
                            "Maximum tool call iterations exceeded">>,
                          <<"Failed to stream chat completion: ", "upstream failure">> }
  /\ \A i \in 1..Len(delivered) :
       delivered[i].type = "error" => i = Len(delivered) /\ wrap.pc = "thrown"

\* The LLM call of the second round failed after content was delivered.
C14_Witness ==
  /\ wrap.pc = "thrown"
  /\ scc.iteration = 2
  /\ ContentOf(delivered) = <<"h">>
  /\ devMessage = <<>>
  /\ delivered[Len(delivered)].type = "error"

\* Every round up to the cap has been answered with tool calls.
CapReached == \A r \in 1..maxIterations : ToolCallRound(r)

FailedRound(r) == r \in 1..Len(llm.decisions) /\ llm.decisions[r].kind = "error"

\* The state of a driver that is over: nothing of it changes any more.
Over(frame, frame2, by(_)) ==
  /\ frame2 = frame
  /\ SelectSeq(handlerLog', by) = SelectSeq(handlerLog, by)

\* C16: when the LLM request of round k fails, the driver that issued it ends
\* at once with the error in its own prefix: k stays its number of requests
\* and its iteration counter, the stub is never asked for a round after k,
\* and the consumer of the stream gets the error; from then on the driver
\* issues no request and invokes no handler.
C16_LLMFailureFatal ==
  /\ [](\A r \in 1..Len(llm.decisions) :
          FailedRound(r) =>
            /\ r = Len(llm.decisions)
            /\ gcc.pc = "thrown"
            /\ gcc.error = <<"Failed to get chat completion: ", "upstream failure">>
            /\ gcc.iteration = r /\ requests.gcc = r
            /\ gcc.result = <<>>
            /\ requests.scc <= r
            /\ (requests.scc = r /\ scc.pc # "await_llm") =>
                 /\ scc.pc = "thrown"
                 /\ scc.error = <<"Failed to stream chat completion: ", "upstream failure">>
                 /\ scc.iteration = r
                 /\ wrap.pc = "thrown" => wrap.error = scc.error)
  /\ [][/\ gcc.pc = "thrown" => Over(gcc, gcc', ByGcc) /\ requests'.gcc = requests.gcc
        /\ scc.pc = "thrown" => Over(scc, scc', ByScc) /\ requests'.scc = requests.scc]_vars

\* The request of the second round failed in both runs after a handler ran
\* in the first.
C16_Witness ==
  /\ FailedRound(2)
  /\ gcc.pc = "thrown"
  /\ scc.pc = "thrown"
  /\ wrap.pc = "thrown"
  /\ requests = [gcc |-> 2, scc |-> 2]
  /\ Len(SelectSeq(handlerLog, ByGcc)) = 1
  /\ Len(SelectSeq(handlerLog, ByScc)) = 1

\* Round 1 answered with one call of the registered tool "add", whose handler
\* returns the single text item "3"; round 2 answered without tool calls; the
\* buffered run has returned.
SumScenario ==
  /\ gcc.pc = "returned"
  /\ Len(llm.decisions) = 2
  /\ ToolCallRound(1)
  /\ Len(llm.decisions[1].tool_calls) = 1
  /\ llm.decisions[1].tool_calls[1].function = [name |-> "add", arguments |-> <<"{", "}">>]
  /\ FinalRound(2)

MaxRows == 5

Marker == <<"-- IGNORE CONVERSATION", " BEFORE THIS LINE --">>

\* What the user types: plain text, text with the marker, a part of the marker.
UserContents == { <<"q">>, <<"a">> \o Marker, <<"-- IGNORE CONVERSATION">> }

\* createSession: handleNewChat's name, or the start of the first message.
SessionNames == { NewConversation, <<"q">> }

NamePrompt ==
  <<"Based on the following conversation, generate a short, descriptive name ",
    "(3-5 words max) for this chat session. Return only the name, nothing else.">>

IsWhitespace(c) == c \in {" ", "\n", "\t"}

RECURSIVE TrimStart(_)
TrimStart(s) ==
  IF s # <<>> /\ IsWhitespace(Head(s)) THEN TrimStart(Tail(s)) ELSE s

RECURSIVE TrimEnd(_)
TrimEnd(s) ==
  IF s # <<>> /\ IsWhitespace(s[Len(s)]) THEN TrimEnd(SubSeq(s, 1, Len(s) - 1)) ELSE s

\* String.prototype.trim
Trim(s) == TrimEnd(TrimStart(s))

\* Mutant: the message with the marker is dropped with what precedes it.
RECURSIVE PreviousMessagesAfterMarker(_)
PreviousMessagesAfterMarker(rows) ==
  IF rows = <<>> THEN <<>>
  ELSE LET msg == rows[Len(rows)]
           before == PreviousMessagesAfterMarker(SubSeq(rows, 1, Len(rows) - 1))
       IN  IF Includes(msg.content, Marker) THEN <<>> ELSE Append(before, msg)

\* allPreviousMessages.forEach((msg) => {
\*   if (msg.content.includes(marker)) previousMessages = [];
\*   previousMessages.push(msg); })
RECURSIVE PreviousMessages(_)
PreviousMessages(rows) ==
  IF rows = <<>> THEN <<>>
  ELSE LET msg == rows[Len(rows)]
           before == PreviousMessages(SubSeq(rows, 1, Len(rows) - 1))
       IN  Append(IF Includes(msg.content, Marker) THEN <<>> ELSE before, msg)

\* previousMessages.map((msg) => ({ role: msg.role, content: msg.content }))
ChatMessages(rows) == [i \in 1..Len(rows) |-> Message(rows[i].role, rows[i].content)]

\* deleteMessage: the rows with the given ids are removed.
DeleteRows(rows, ids) ==
  LET Kept(row) == row.id \notin ids IN SelectSeq(rows, Kept)

\* The stub of a session: it answers with a final message, fails, or repeats
\* one tool call.
SessionStub == [decisions |-> <<>>, freeCalls |-> MaxFreeCalls, repeating |-> TRUE]

\* No run of streamUserMessageById is in progress.
NoRun == wrap.pc \in {"closed", "returned", "thrown"}

\* The frames and logs of the last run are dropped.
RunDropped ==
  /\ scc' = SccInit(<<>>)
  /\ gcc' = [GccInit(<<>>) EXCEPT !.pc = "idle"]
  /\ llm' = SessionStub
  /\ emitted' = <<>>
  /\ delivered' = <<>>
  /\ subscribed' = TRUE
  /\ handlerLog' = <<>>
  /\ requests' = [gcc |-> 0, scc |-> 0]

\* The subscription chat.streamMessage is opened: streamUserMessageById reads
\* the session and its history and builds chatMessages.
StartRun(rows) ==
  /\ wrap' = [WrapInit(ChatMessages(PreviousMessages(rows)))
                EXCEPT !.sessionName = devSession.name]
  /\ RunDropped

\* handleSendMessage: addUserMessage, then the subscription on the new row.
SendMessage ==
  /\ NoRun
  /\ devSession.nextId < MaxRows
  /\ \E content \in UserContents :
       LET rows == Append(devMessage, Row(devSession.nextId, "user", content, Null, Null))
       IN  /\ devMessage' = rows
           /\ StartRun(rows)
  /\ devSession' = [devSession EXCEPT !.nextId = @ + 1]
  /\ UNCHANGED <<titleLog, store, page>>

\* handleRedo: the message and all that follow it are deleted, and the
\* message before it, which must not be an assistant message, is run again.
Redo ==
  /\ NoRun
  /\ devSession.nextId <= MaxRows
  /\ \E currentIndex \in 2..Len(devMessage) :
       /\ devMessage[currentIndex - 1].role # "assistant"
       /\ LET rows == DeleteRows(devMessage,
                                 {devMessage[i].id : i \in currentIndex..Len(devMessage)})
          IN  /\ devMessage' = rows
              /\ StartRun(rows)
  /\ UNCHANGED <<devSession, titleLog, store, page>>

\* handleDeleteMessage
DeleteMessage ==
  /\ NoRun
  /\ \E i \in 1..Len(devMessage) :
       devMessage' = DeleteRows(devMessage, {devMessage[i].id})
  /\ wrap' = [WrapInit(<<>>) EXCEPT !.pc = "closed"]
  /\ RunDropped
  /\ UNCHANGED <<devSession, titleLog, store, page>>

\* The request of a streaming round of the session is answered.
SccLLMResponds ==
  /\ gcc.pc = "idle"
  /\ scc.pc = "await_llm"
  /\ scc.iteration = Len(llm.decisions) + 1
  /\ \E d \in StubChoices :
       /\ ~HasCalls(d.tool_calls)
       /\ llm' = StubDecide(d)
  /\ UNCHANGED <<gcc, scc, wrap, emitted, delivered, subscribed, devMessage, devSession, titleLog, store, page,
                 handlerLog, requests>>

\* [system prompt, ...previousMessages, { role: "assistant", content: accumulatedContent }]
TitleMessages(frame) ==
  <<Message("system", NamePrompt)>> \o frame.chatMessages
    \o <<Message("assistant", frame.accumulatedContent)>>

\* The assistant row is inserted and a session name is due: getChatCompletion
\* is called on the conversation.
WrapPersistAndName ==
  /\ SccScheduled
  /\ wrap.pc = "persist"
  /\ TitleDue(wrap)
  /\ PersistAssistant
  /\ wrap' = [wrap EXCEPT !.pc = "title", !.assistantMessageId = devSession.nextId]
  /\ gcc' = GccInit(TitleMessages(wrap))
  /\ llm' = SessionStub
  /\ titleLog' = Append(titleLog, [previousMessages |-> Len(wrap.chatMessages),
                                   name |-> wrap.sessionName])
  /\ requests' = [requests EXCEPT !.gcc = 0]
  /\ UNCHANGED <<scc, emitted, delivered, subscribed, store, page, handlerLog>>

\* const generatedName = nameResult.content.trim(); if (generatedName) ...
WrapTitleReturned ==
  /\ wrap.pc = "title"
  /\ gcc.pc = "returned"
  /\ LET generatedName == Trim(gcc.result[1].content) IN
       wrap' = [wrap EXCEPT !.generatedName = generatedName,
                            !.pc = IF generatedName # <<>> THEN "store_name"
                                   ELSE "yield_id"]
  /\ UNCHANGED <<llm, gcc, scc, emitted, delivered, subscribed, devMessage, devSession, titleLog, store, page,
                 handlerLog, requests>>

\* tx.update(devSession).set({ name: generatedName })
WrapNameStored ==
  /\ wrap.pc = "store_name"
  /\ devSession' = [devSession EXCEPT !.name = wrap.generatedName]
  /\ wrap' = [wrap EXCEPT !.pc = "yield_id"]
  /\ UNCHANGED <<llm, gcc, scc, emitted, delivered, subscribed, devMessage, titleLog, store, page, handlerLog,
                 requests>>

StoreFailure == <<"update failed">>

\* The update rejects: catch (error) { console.error(...) }
WrapNameStoreFails ==
  /\ wrap.pc = "store_name"
  /\ wrap' = [wrap EXCEPT !.pc = "yield_id", !.titleError = StoreFailure]
  /\ UNCHANGED <<llm, gcc, scc, emitted, delivered, subscribed, devMessage, devSession, titleLog, store, page,
                 handlerLog, requests>>

\* Mutant: the failure of the title call ends the run.
WrapTitleThrowsRethrowing ==
  /\ wrap.pc = "title"
  /\ gcc.pc = "thrown"
  /\ wrap' = [wrap EXCEPT !.pc = "thrown", !.titleError = gcc.error, !.error = gcc.error]
  /\ delivered' = EmitNext(ErrorEvent(gcc.error))
  /\ UNCHANGED <<llm, gcc, scc, emitted, subscribed, devMessage, devSession, titleLog, store, page, handlerLog,
                 requests>>

\* getChatCompletion throws: catch (error) { console.error(...) }
WrapTitleThrows ==
  /\ wrap.pc = "title"
  /\ gcc.pc = "thrown"
  /\ wrap' = [wrap EXCEPT !.pc = "yield_id", !.titleError = gcc.error]
  /\ UNCHANGED <<llm, gcc, scc, emitted, delivered, subscribed, devMessage, devSession, titleLog, store, page,
                 handlerLog, requests>>

InitSession ==
  /\ llm = SessionStub
  /\ gcc = [GccInit(<<>>) EXCEPT !.pc = "idle"]
  /\ scc = SccInit(<<>>)
  /\ wrap = [WrapInit(<<>>) EXCEPT !.pc = "closed"]
  /\ emitted = <<>>
  /\ delivered = <<>>
  /\ subscribed = TRUE
  /\ devMessage = <<>>
  /\ \E name \in SessionNames : devSession = SessionRow(name, 1)
  /\ titleLog = <<>>
  /\ store = EmptyStore
  /\ page = IdlePage
  /\ handlerLog = <<>>
  /\ requests = [gcc |-> 0, scc |-> 0]

NextSession ==
  \/ SendMessage
  \/ Redo
  \/ DeleteMessage
  \/ WrapStart
  \/ SccRequest
  \/ SccLLMResponds
  \/ SccLLMFails
  \/ SccStreamOpens
  \/ SccReadEvent
  \/ SccYieldDone
  \/ SccReturn
  \/ WrapForward
  \/ WrapForwardDone
  \/ WrapPersist
  \/ WrapPersistAndName
  \/ GccRequest
  \/ GccCapExceeded
  \/ GccLLMFails
  \/ GccToolCallsResponse
  \/ GccFinalResponse
  \/ GccInvokeHandler
  \/ GccHandlerReturns
  \/ WrapTitleReturned
  \/ WrapNameStored
  \/ WrapNameStoreFails
  \/ WrapTitleThrows
  \/ WrapYieldId
  \/ WrapReturns
  \/ WrapRethrows

SpecSession == InitSession /\ [][NextSession]_vars

\* The rows whose content contains the marker string.
MarkerRows(rows) == {i \in 1..Len(rows) : Includes(rows[i].content, Marker)}

LastMarkerRow(rows) == CHOOSE i \in MarkerRows(rows) : \A j \in MarkerRows(rows) : j <= i

RoleAndContent(rows) ==
  [i \in 1..Len(rows) |->
     [role |-> rows[i].role, content |-> rows[i].content, tool_calls |-> <<>>,
      tool_call_id |-> Absent, name |-> Absent]]

\* C18 as stated: when a run has loaded its history, the history is the rows
\* after the last row containing the marker (none at or before it), or all
\* rows in creation order if no row contains the marker.
C18_HistoryAfterMarker ==
  wrap.pc = "idle" =>
    wrap.chatMessages =
      IF MarkerRows(devMessage) = {} THEN RoleAndContent(devMessage)
      ELSE RoleAndContent(SubSeq(devMessage, LastMarkerRow(devMessage) + 1, Len(devMessage)))

\* C18 (amended): when a run has loaded its history, the history starts with
\* the last row containing the marker and holds every row after it, or holds
\* all rows in creation order if no row contains the marker; the streaming
\* driver is started on exactly this history.
C18_HistoryFromMarker ==
  /\ wrap.pc = "idle" =>
       wrap.chatMessages =
         IF MarkerRows(devMessage) = {} THEN RoleAndContent(devMessage)
         ELSE RoleAndContent(SubSeq(devMessage, LastMarkerRow(devMessage), Len(devMessage)))
  /\ (wrap.pc \notin {"idle", "closed"} /\ scc.pc # "idle") =>
       scc.messages = wrap.chatMessages

\* Three rows, the marker in the second: the driver is started on the last two.
C18_Witness ==
  /\ scc.pc = "await_llm"
  /\ Len(devMessage) = 3
  /\ MarkerRows(devMessage) = {2}
  /\ Len(scc.messages) = 2
  /\ scc.messages[1].content = <<"a">> \o Marker

\* C19: over all runs of a session at most one getChatCompletion call is
\* made for its name, and each such call is made by a run whose history has
\* exactly 3 messages while the session name is "New conversation".
C19_TitleOnce ==
  /\ Len(titleLog) <= 1
  /\ \A i \in 1..Len(titleLog) :
       /\ titleLog[i].previousMessages = 3
       /\ titleLog[i].name = <<"New conversation">>

\* C20: when the title call or the update of the name has failed, the run
\* goes on: the assistant row is in the table, the session name is the one
\* the run read, no error event is delivered and the run never ends thrown;
\* the done chunk with the row's id is the next and last event delivered.
C20_TitleFailureSwallowed ==
  wrap.titleError # <<>> =>
    /\ wrap.pc \in {"yield_id", "pulling", "returned"}
    /\ devSession.name = wrap.sessionName
    /\ \A i \in 1..Len(delivered) : delivered[i].type # "error"
    /\ wrap.pc \in {"yield_id", "pulling"} =>
         \E r \in 1..Len(devMessage) :
           /\ devMessage[r].id = wrap.assistantMessageId
           /\ devMessage[r].role = "assistant"
           /\ devMessage[r].content = wrap.accumulatedContent
    /\ wrap.pc \in {"pulling", "returned"} =>
         /\ delivered # <<>>
         /\ delivered[Len(delivered)] =
              [type |-> "done", assistantMessageId |-> wrap.assistantMessageId]

\* The run has ended after the title call hit the iteration cap.
C20_Witness ==
  /\ wrap.pc = "returned"
  /\ wrap.titleError = GccFailure(TooManyIterations)
  /\ devSession.name = NewConversation
  /\ delivered[Len(delivered)].type = "done"

\* The update of the name failed and the run went on.
C20_WitnessStore ==
  /\ wrap.pc = "returned"
  /\ wrap.titleError = StoreFailure
  /\ wrap.generatedName = <<"T">>

\* The events of the round's stream read so far.
EventsRead == SubSeq(scc.stream.events, 1, scc.stream.read)

\* C24: whatever the order in which the indices of the function tool-call
\* deltas arrive, reading them never fails the run, the list has an entry for
\* every index delivered, and the entry for index i holds the fragments, the
\* id and the name delivered for i.
C24_MissingIndexCreated ==
  scc.pc \in {"reading", "thrown"} =>
    /\ scc.pc = "reading"
    /\ \A p \in 1..Len(ConsumedDeltas) :
         LET i == ConsumedDeltas[p].index IN
           /\ i < Len(scc.toolCalls)
           /\ scc.toolCalls[i + 1].arguments = ArgumentsOf(ConsumedDeltas, i)
           /\ scc.toolCalls[i + 1].id = LastId(ConsumedDeltas, i)
           /\ scc.toolCalls[i + 1].name = LastName(ConsumedDeltas, i)

\* The positions, among the events read, of those that carry
\* finish_reason "tool_calls".
FinishedAt == {p \in 1..Len(EventsRead) : EventsRead[p].finish_reason = "tool_calls"}

\* C25: once an event with finish_reason "tool_calls" has been read, the
\* events read after it leave the assembled batch and the content emitted
\* as they were when that event had been processed.
C25_FinishEndsRound ==
  (scc.pc = "reading" /\ FinishedAt # {}) =>
    LET f == CHOOSE p \in FinishedAt : \A q \in FinishedAt : p <= q
        upTo == SubSeq(EventsRead, 1, f)
    IN  /\ ContentOf(emitted) = Flatten([e \in 1..f |-> upTo[e].content])
        /\ scc.toolCalls =
             ApplyDeltas(<<>>, Flatten([e \in 1..f |-> upTo[e].tool_calls])).toolCalls

\* The content deltas of the events read, one chunk each, in stream order.
ContentDeltasRead ==
  LET HasContent(event) == event.content # <<>>
      with == SelectSeq(EventsRead, HasContent)
  IN  [i \in 1..Len(with) |-> [type |-> "content", content |-> with[i].content]]

\* C26: at every point of a round the content chunks emitted are exactly
\* the non-empty content deltas of the events read so far, one chunk per
\* delta in stream order, and the round's tool_call chunk comes after them.
C26_ContentSurfaced ==
  /\ scc.pc \in {"reading", "thrown"} => emitted = ContentDeltasRead
  /\ scc.pc = "push_assistant" =>
       /\ Len(emitted) >= 1
       /\ \A i \in 1..(Len(emitted) - 1) : emitted[i].type = "content"
       /\ emitted[Len(emitted)].type = "tool_call"

\* C27: when the streaming driver has finished the calls of a round, it has
\* emitted one tool_result chunk per tool message of its transcript, in
\* order, each with the content of that tool message (so every call of the
\* batch, whatever became of it, has its chunk).
C27_ResultPerCall ==
  scc.pc \in {"while", "await_llm", "reading", "returned"} =>
    LET results == SelectSeq(emitted, IsToolResult)
        answers == SelectSeq(scc.currentMessages, IsToolMessage)
    IN  /\ Len(results) = Len(answers)
        /\ \A i \in 1..Len(answers) : results[i].content = answers[i].content

\* The widget identifier a tool result produces: the string under _meta.path.
WidgetOf(result) ==
  IF result.kind = "result" /\ Truthy(result.meta)
     /\ Truthy(Get(result.meta, "path")) /\ Get(result.meta, "path").t = "string"
  THEN Get(result.meta, "path")
  ELSE Undefined

\* The first widget identifier produced, in execution order.
RECURSIVE FirstWidget(_)
FirstWidget(invocations) ==
  IF invocations = <<>> THEN Undefined
  ELSE LET widget == WidgetOf(Handler(Head(invocations).name, Head(invocations).args)) IN
         IF Truthy(widget) THEN widget ELSE FirstWidget(Tail(invocations))

\* C28: the widgetId a run ends with is the first widget identifier any of
\* its tool results produced, in execution order, whichever result supplied
\* the sticky meta or structuredContent.
C28_WidgetIdSticky ==
  /\ gcc.pc = "returned" =>
       gcc.result[1].widgetId = FirstWidget(SelectSeq(handlerLog, ByGcc))
  /\ scc.pc = "returned" =>
       scc.finalWidgetId = FirstWidget(SelectSeq(handlerLog, ByScc))

\* What a handler invocation was made with.
CallMade(entry) == [id |-> entry.id, name |-> entry.name, args |-> entry.args]

\* C29: when both drivers have finished the same round on the same LLM
\* responses, they have invoked the handlers for the same calls with the same
\* parsed arguments and have appended tool messages with the same contents.
C29_SamePerCallSemantics ==
  (gcc.pc = "while" /\ scc.pc = "while" /\ gcc.iteration = scc.iteration) =>
    LET byGcc == SelectSeq(handlerLog, ByGcc)
        byScc == SelectSeq(handlerLog, ByScc)
    IN  /\ [i \in 1..Len(byGcc) |-> CallMade(byGcc[i])]
             = [i \in 1..Len(byScc) |-> CallMade(byScc[i])]
        /\ SelectSeq(gcc.currentMessages, IsToolMessage)
             = SelectSeq(scc.currentMessages, IsToolMessage)

\* C30: a run that asks for a session name makes exactly one LLM request
\* for it, beside those of the streaming driver, and invokes no tool handler
\* for it, whatever the response to that request holds.
C30_TitleOneRequest ==
  /\ requests.gcc <= 1
  /\ \A i \in 1..Len(handlerLog) : handlerLog[i].run # "gcc"
  /\ (wrap.pc = "title" /\ gcc.pc \in {"returned", "thrown"}) => requests.gcc = 1

(***************************************************************************)
(* The runs under fair scheduling: a continuation that is ready to run is  *)
(* run, and every LLM request and handler invocation settles.              *)
(***************************************************************************)
SpecFair == Spec /\ WF_vars(Next)

Terminal(frame) == frame.pc \in {"returned", "thrown"}

\* C23: both drivers reach a terminal state, with a result (buffered) or
\* the done chunk (streaming) when they return and an error when they
\* throw, and on the way neither starts more than 10 rounds.
C23_Termination ==
  /\ <>(Terminal(gcc) /\ Terminal(scc))
  /\ [](/\ gcc.iteration <= 10 /\ scc.iteration <= 10
        /\ gcc.pc = "returned" => gcc.result # <<>>
        /\ scc.pc = "returned" => emitted # <<>> /\ emitted[Len(emitted)].type = "done"
        /\ gcc.pc = "thrown" => gcc.error # <<>>
        /\ scc.pc = "thrown" => scc.error # <<>>)

\* One driver ended on the failed request of round 3, the other after it.
C23_Witness ==
  /\ Terminal(gcc) /\ Terminal(scc)
  /\ gcc.iteration = 3 /\ scc.iteration = 3
  /\ gcc.pc = "thrown" /\ scc.pc = "thrown"
  /\ handlerLog # <<>>


\* ---------------------------------------------------------------------------
\* The persistence operations of chat.service over the tables of several users
\* ---------------------------------------------------------------------------

Users == {"u1", "u2"}

\* Sessions and messages ever created, and updates of one session's updated_at.
MaxSessions == 2
MaxMessages == 2
MaxTouches == 2

\* The ids a caller can name: every id the tables hand out and one they never do.
SessionIds == 1..(MaxSessions + 1)
MessageIds == 1..(MaxMessages + 1)

Reply(op, userId, sessionId, ok) ==
  [op |-> op, userId |-> userId, sessionId |-> sessionId, messageIds |-> {}, ok |-> ok]

\* Mutant: the session is looked up by id alone.
FindSessionOfAnyUser(sessions, userId, sessionId) ==
  { s \in sessions : s.id = sessionId }

\* select from dev_session where id = sessionId and user_id = userId
FindSession(sessions, userId, sessionId) ==
  { s \in sessions : s.id = sessionId /\ s.user_id = userId }

\* The transaction threw: withUserContext rolls back and the caller gets the error.
StoreThrows(op, userId, sessionId) ==
  store' = [store EXCEPT !.reply = Reply(op, userId, sessionId, FALSE)]

\* update dev_session set updated_at = now() where id = sessionId
Touch(sessions, sessionId) ==
  { IF s.id = sessionId THEN [s EXCEPT !.updated_at = @ + 1] ELSE s : s \in sessions }

Touchable(sessions, sessionId) ==
  \A s \in sessions : s.id = sessionId => s.updated_at < MaxTouches

StoreIdle == UNCHANGED <<llm, gcc, scc, wrap, emitted, delivered, subscribed, devMessage, devSession,
                         titleLog, page, handlerLog, requests>>

CreateSession ==
  /\ store.nextSession <= MaxSessions
  /\ \E userId \in Users :
       store' = [store EXCEPT
                   !.devSession = @ \cup {[id |-> store.nextSession, user_id |-> userId,
                                           updated_at |-> 0]},
                   !.nextSession = @ + 1,
                   !.reply = Reply("createSession", userId, store.nextSession, TRUE)]
  /\ StoreIdle

GetMessages ==
  /\ \E userId \in Users, sessionId \in SessionIds :
       IF FindSession(store.devSession, userId, sessionId) = {}
       THEN StoreThrows("getMessages", userId, sessionId)
       ELSE store' = [store EXCEPT !.reply = Reply("getMessages", userId, sessionId, TRUE)]
  /\ StoreIdle

AddUserMessage ==
  /\ \E userId \in Users, sessionId \in SessionIds :
       IF FindSession(store.devSession, userId, sessionId) = {}
       THEN StoreThrows("addUserMessage", userId, sessionId)
       ELSE /\ store.nextMessage <= MaxMessages
            /\ Touchable(store.devSession, sessionId)
            /\ store' = [store EXCEPT
                           !.devMessage = @ \cup {[id |-> store.nextMessage,
                                                   session_id |-> sessionId,
                                                   user_id |-> userId]},
                           !.nextMessage = @ + 1,
                           !.devSession = Touch(@, sessionId),
                           !.reply = Reply("addUserMessage", userId, sessionId, TRUE)]
  /\ StoreIdle

DeleteSession ==
  /\ \E userId \in Users, sessionId \in SessionIds :
       IF FindSession(store.devSession, userId, sessionId) = {}
       THEN StoreThrows("deleteSession", userId, sessionId)
       ELSE store' = [store EXCEPT
                        !.devMessage = { m \in @ : ~(m.session_id = sessionId
                                                     /\ m.user_id = userId) },
                        !.devSession = { s \in @ : ~(s.id = sessionId
                                                     /\ s.user_id = userId) },
                        !.reply = Reply("deleteSession", userId, sessionId, TRUE)]
  /\ StoreIdle

\* Mutant: the rows are deleted by id alone.
DeleteMessagesOfAnyUser ==
  /\ \E userId \in Users, messageIds \in SUBSET MessageIds :
       store' = [store EXCEPT
                   !.devMessage = { m \in @ : m.id \notin messageIds },
                   !.reply = [Reply("deleteMessage", userId, 0, TRUE)
                                EXCEPT !.messageIds = messageIds]]
  /\ StoreIdle

\* deleteMessage(userId, messageIds):
\* delete from dev_message where id in messageIds and user_id = userId;
\* the reply is { success: true } whatever was deleted.
DeleteMessages ==
  /\ \E userId \in Users, messageIds \in SUBSET MessageIds :
       store' = [store EXCEPT
                   !.devMessage = { m \in @ : ~(m.id \in messageIds /\ m.user_id = userId) },
                   !.reply = [Reply("deleteMessage", userId, 0, TRUE)
                                EXCEPT !.messageIds = messageIds]]
  /\ StoreIdle

\* The first transaction of streamUserMessageById: the message by id and user, its
\* session by id and user, and the session's updated_at.  A message id that names
\* no row of the caller has no session to report: the reply carries the session of
\* the row with that id when another user owns one, and 0 when there is none.
StreamRead ==
  /\ \E userId \in Users, messageId \in MessageIds :
       LET userMsg == { m \in store.devMessage : m.id = messageId /\ m.user_id = userId }
           anyMsg  == { m \in store.devMessage : m.id = messageId }
       IN  IF userMsg = {}
           THEN StoreThrows("streamUserMessageById", userId,
                            IF anyMsg = {} THEN 0 ELSE (CHOOSE m \in anyMsg : TRUE).session_id)
           ELSE LET sessionId == (CHOOSE m \in userMsg : TRUE).session_id
                IN  IF FindSession(store.devSession, userId, sessionId) = {}
                    THEN StoreThrows("streamUserMessageById", userId, sessionId)
                    ELSE /\ Touchable(store.devSession, sessionId)
                         /\ store' = [store EXCEPT
                                        !.devSession = Touch(@, sessionId),
                                        !.reply = Reply("streamUserMessageById", userId,
                                                        sessionId, TRUE)]
  /\ StoreIdle

NextStore ==
  \/ CreateSession
  \/ GetMessages
  \/ AddUserMessage
  \/ DeleteSession
  \/ DeleteMessages
  \/ StreamRead

\* The runs stay closed: only the tables of the store move.
SpecStore == InitSession /\ [][NextStore]_vars

SessionScoped == {"getMessages", "addUserMessage", "deleteSession", "streamUserMessageById"}

\* C21: an operation called with a session id that names no session of the calling
\* user (none at all, or another user's), and streamUserMessageById for a message of
\* such a session, fails with an error and leaves sessions and messages as they were.
C21_ForeignSessionRejected ==
  [][ (/\ store'.reply.op \in SessionScoped
       /\ ~ \E s \in store.devSession :
              s.id = store'.reply.sessionId /\ s.user_id = store'.reply.userId)
      => (/\ ~ store'.reply.ok
          /\ store'.devSession = store.devSession
          /\ store'.devMessage = store.devMessage) ]_vars

\* u2 was refused the deletion of u1's session, which still holds its message.
C21_Witness ==
  /\ store.reply = Reply("deleteSession", "u2", 1, FALSE)
  /\ \E s \in store.devSession : s.id = 1 /\ s.user_id = "u1"
  /\ \E m \in store.devMessage : m.session_id = 1 /\ m.user_id = "u1"


(***************************************************************************)
(* Two concurrent runs: getChatCompletion on one conversation and          *)
(* streamChatCompletion on another, interleaved at their await points      *)
(***************************************************************************)
\* The conversation of the second caller.
OtherMessages == <<Message("user", <<"p">>)>>

InitPair ==
  /\ llm = [decisions |-> <<>>, freeCalls |-> 0, repeating |-> FALSE]
  /\ \E m \in InitialMessages :
       /\ gcc = GccInit(m)
       /\ scc = SccInit(OtherMessages)
       /\ wrap = WrapInit(OtherMessages)
  /\ emitted = <<>>
  /\ delivered = <<>>
  /\ subscribed = TRUE
  /\ devMessage = <<>>
  /\ devSession = SessionRow(NewConversation, 1)
  /\ titleLog = <<>>
  /\ store = EmptyStore
  /\ page = IdlePage
  /\ handlerLog = <<>>
  /\ requests = [gcc |-> 0, scc |-> 0]

SpecPair == InitPair /\ [][Next]_vars


\* The messages a run has pushed in the round it is in: the assistant message
\* once the for loop is entered, and one tool message per call dealt with.
PushedInRound(frame) ==
  IF frame.pc \in {"for", "await_tool", "push_result"} THEN frame.k
  ELSE IF frame.iteration > 0
          /\ (frame.pc = "while" \/ Includes(frame.error, TooManyIterations))
  THEN 1 + Len(llm.decisions[frame.iteration].tool_calls)
  ELSE 0

\* Message i of the list is the one the run's own round q put there.
PushedByRound(frame, i, q) ==
  LET j == i - TranscriptLen(frame.messages, q - 1) - 1
      calls == llm.decisions[q].tool_calls
      message == frame.currentMessages[i]
  IN  /\ j \in 0..Len(calls)
      /\ IF j = 0
         THEN message.role = "assistant" /\ message.tool_calls = calls
         ELSE message.role = "tool" /\ message.tool_call_id = calls[j].id

\* The list is the run's input followed by what its own rounds pushed so far.
OwnMessages(frame) ==
  /\ frame.iteration > 0 =>
       Len(frame.currentMessages) =
         TranscriptLen(frame.messages, frame.iteration - 1) + PushedInRound(frame)
  /\ frame.iteration = 0 => frame.currentMessages = frame.messages
  /\ SubSeq(frame.currentMessages, 1, Len(frame.messages)) = frame.messages
  /\ \A i \in (Len(frame.messages) + 1)..Len(frame.currentMessages) :
       \E q \in 1..frame.iteration : PushedByRound(frame, i, q)

\* The widget id captured with a sticky _meta.
WidgetCaptured(meta) ==
  IF Truthy(meta) /\ Truthy(Get(meta, "path")) /\ Get(meta, "path").t = "string"
  THEN Get(meta, "path") ELSE Undefined

\* The sticky fields are those of the run's own settled tool results.
OwnSticky(frame, invocations) ==
  /\ frame.finalMeta = FirstCarried(Settled(frame, invocations), "meta")
  /\ frame.finalStructuredContent =
       FirstCarried(Settled(frame, invocations), "structuredContent")
  /\ frame.finalWidgetId = WidgetCaptured(frame.finalMeta)

ResultMetas ==
  { Undefined, Obj({}), Obj({<<"path", Num(5)>>}), Obj({<<"path", Str(TodoPath)>>}) }

ResultContents ==
  { Undefined, Obj({}), Obj({<<"todos", Num(1)>>}),
    Obj({<<"_meta", Num(7)>>, <<"todos", Num(1)>>}) }

\* The run is in its second round, after a first round whose only settled tool
\* result carried the given fields; the stream of the final answer is open.
InitPersist ==
  /\ llm = [decisions |-> <<>>, freeCalls |-> 0, repeating |-> FALSE]
  /\ \E m \in InitialMessages, meta \in ResultMetas, content \in ResultContents,
        answer \in FinalContents :
       LET result == ToolResult(Arr(<<>>), meta, content) IN
         /\ gcc = [GccInit(m) EXCEPT !.pc = "idle"]
         /\ wrap = [WrapInit(m) EXCEPT !.pc = "pulling"]
         /\ scc = [SccInit(m) EXCEPT
                     !.pc = "reading", !.iteration = 2,
                     !.stream = StreamOf(ContentEvents(answer)),
                     !.finalMeta = StickyMeta(Undefined, result),
                     !.finalStructuredContent = StickyStructuredContent(Undefined, result),
                     !.finalWidgetId = StickyWidgetId(Undefined, Undefined, result)]
  /\ emitted = <<>>
  /\ delivered = <<>>
  /\ subscribed = TRUE
  /\ devMessage = <<>>
  /\ devSession = SessionRow(NewConversation, 1)
  /\ titleLog = <<>>
  /\ store = EmptyStore
  /\ page = IdlePage
  /\ handlerLog = <<>>
  /\ requests = [gcc |-> 0, scc |-> 2]

NextPersist ==
  \/ SccReadEvent
  \/ SccYieldMetadata
  \/ SccYieldDone
  \/ SccReturn
  \/ WrapForward
  \/ WrapForwardDone
  \/ WrapPersist
  \/ WrapYieldId
  \/ WrapReturns

SpecPersist == InitPersist /\ [][NextPersist]_vars

\* The assistant row of the run has been inserted.
Persisted == wrap.assistantMessageId # 0 /\ devMessage # <<>>

PersistedRow == devMessage[Len(devMessage)]

\* The entries of an object, none for a value that is unset.
EntriesOf(v) == IF Truthy(v) THEN v.f ELSE {}

\* C31 as stated: the persisted structured content is null when the driver ended
\* with neither field, otherwise it holds all entries of the sticky
\* structuredContent and a "_meta" entry with the sticky meta; widget_id is the
\* sticky widgetId or null.
C31_PersistedSticky ==
  Persisted =>
    /\ PersistedRow.structured_content =
         IF Truthy(scc.finalMeta) \/ Truthy(scc.finalStructuredContent)
         THEN Obj(EntriesOf(scc.finalStructuredContent) \cup {<<"_meta", scc.finalMeta>>})
         ELSE Null
    /\ PersistedRow.widget_id =
         IF Truthy(scc.finalWidgetId) THEN scc.finalWidgetId ELSE Null

\* C31 amended: the persisted structured content is null when the driver ended
\* with neither field; otherwise it holds the entries of the sticky
\* structuredContent other than "_meta" and, only when there is a sticky meta, a
\* "_meta" entry with it.  widget_id is the sticky widgetId or null.
C31_PersistedStickyMerged ==
  Persisted =>
    /\ PersistedRow.structured_content =
         IF Truthy(scc.finalMeta)
         THEN Obj({e \in EntriesOf(scc.finalStructuredContent) : e[1] # "_meta"}
                    \cup {<<"_meta", scc.finalMeta>>})
         ELSE IF Truthy(scc.finalStructuredContent)
         THEN Obj(scc.finalStructuredContent.f)
         ELSE Null
    /\ PersistedRow.widget_id =
         IF Truthy(scc.finalWidgetId) THEN scc.finalWidgetId ELSE Null

\* A row that merged a structuredContent holding "_meta" of its own with a sticky
\* meta and carries the widget id.
C31_Witness ==
  /\ Persisted
  /\ Get(scc.finalStructuredContent, "_meta") = Num(7)
  /\ Get(PersistedRow.structured_content, "_meta") = Obj({<<"path", Str(TodoPath)>>})
  /\ Get(PersistedRow.structured_content, "todos") = Num(1)
  /\ PersistedRow.widget_id = Str(TodoPath)
  /\ PersistedRow.content = <<"o", "k">>


\* A chunk of type "done" has reached the subscriber.
DoneDelivered == \E i \in 1..Len(delivered) : delivered[i].type = "done"

\* C32: once a "done" chunk has been delivered to the subscriber, the run's
\* assistant message is stored.
C32_DoneImpliesPersisted ==
  DoneDelivered => \E j \in 1..Len(devMessage) : devMessage[j].role = "assistant"


(***************************************************************************)
(* A subscriber that unsubscribes while the run is in progress             *)
(***************************************************************************)
\* Mutant: the teardown ends the generator with stream.return().
UnsubscribeReturning ==
  /\ subscribed
  /\ wrap.pc \notin {"idle", "returned", "thrown"}
  /\ subscribed' = FALSE
  /\ wrap' = [wrap EXCEPT !.pc = "returned"]
  /\ UNCHANGED <<llm, gcc, scc, emitted, delivered, devMessage, devSession, titleLog,
                 store, page, handlerLog, requests>>

\* The teardown of the observable does nothing: the loop over the generator
\* goes on, and emit.next on the closed observer delivers nothing.
Unsubscribe ==
  /\ subscribed
  /\ wrap.pc \notin {"idle", "returned", "thrown"}
  /\ subscribed' = FALSE
  /\ UNCHANGED <<llm, gcc, scc, wrap, emitted, delivered, devMessage, devSession, titleLog,
                 store, page, handlerLog, requests>>

\* The run of Init with a stub that decides on one tool call of its own choice.
InitCancel ==
  /\ llm = [decisions |-> <<>>, freeCalls |-> MaxFreeCalls - 1, repeating |-> FALSE]
  /\ \E m \in InitialMessages :
       /\ gcc = GccInit(m)
       /\ scc = SccInit(m)
       /\ wrap = WrapInit(m)
  /\ emitted = <<>>
  /\ delivered = <<>>
  /\ subscribed = TRUE
  /\ devMessage = <<>>
  /\ devSession = SessionRow(NewConversation, 1)
  /\ titleLog = <<>>
  /\ store = EmptyStore
  /\ page = IdlePage
  /\ handlerLog = <<>>
  /\ requests = [gcc |-> 0, scc |-> 0]

NextCancel == Next \/ Unsubscribe

\* Every continuation that is ready runs; the subscriber need not unsubscribe.
SpecCancel == InitCancel /\ [][NextCancel]_vars /\ WF_vars(Next)

\* C33: a run whose subscriber unsubscribes still reaches its terminal state; by
\* then it has issued every request of the run that has no subscriber at all,
\* invoked every handler of its rounds and emitted its chunks, and when it ends
\* successfully exactly one assistant row is stored.
C33_NoCancellation ==
  /\ <>(wrap.pc \in {"returned", "thrown"})
  /\ []((wrap.pc \in {"returned", "thrown"} /\ ~subscribed) =>
          /\ scc.pc = wrap.pc
          /\ requests.scc = Len(llm.decisions)
          /\ Len(SelectSeq(handlerLog, ByScc)) = ExpectedInvocations
          /\ wrap.pc = "returned" =>
               /\ Cardinality(AssistantRows) = 1
               /\ emitted[Len(emitted)].type = "done")

\* The subscriber left during the first round; the run went on through a tool
\* call of the second round, ended successfully and stored its message.
C33_Witness ==
  /\ ~subscribed
  /\ wrap.pc = "returned"
  /\ Len(delivered) <= 1
  /\ scc.iteration = 3
  /\ Len(SelectSeq(handlerLog, ByScc)) = 2
  /\ Cardinality(AssistantRows) = 1


(***************************************************************************)
(* ChatPage: the handlers of the page, split at their awaits, and the runs *)
(* their subscriptions start at the server                                 *)
(***************************************************************************)
\* Calls of handlers that are past their guard and await their mutation.
MaxCalls == 2

RemoveAt(seq, i) == SubSeq(seq, 1, i - 1) \o SubSeq(seq, i + 1, Len(seq))

PageIdle == UNCHANGED <<llm, gcc, scc, wrap, emitted, subscribed, titleLog, store,
                        handlerLog, requests>>

\* handleSendMessage up to `await addUserMessageMutation.mutateAsync(...)`: the
\* guard reads isStreaming, which is still false while an earlier call awaits.
PageSend ==
  /\ ~page.isStreaming
  /\ Len(page.calls) < MaxCalls
  /\ page' = [page EXCEPT !.calls = Append(@, [op |-> "send", ids |-> {}, messageId |-> 0])]
  /\ UNCHANGED <<devMessage, devSession, delivered>>
  /\ PageIdle

\* The mutation resolved: the row exists; setIsStreaming(true) and
\* setPendingMessage(...) open the subscription on the new message.
PageAddResolves ==
  /\ devSession.nextId < MaxRows
  /\ \E i \in 1..Len(page.calls) :
       /\ page.calls[i].op = "send"
       /\ devMessage' = Append(devMessage,
                               Row(devSession.nextId, "user", <<"q">>, Null, Null))
       /\ page' = [page EXCEPT !.calls = RemoveAt(@, i),
                               !.isStreaming = TRUE,
                               !.pendingMessage = devSession.nextId,
                               !.runs = @ \cup {devSession.nextId}]
  /\ devSession' = [devSession EXCEPT !.nextId = @ + 1]
  /\ delivered' = <<>>
  /\ PageIdle

\* The mutation rejected: catch { setIsStreaming(false) }.
PageAddRejects ==
  /\ \E i \in 1..Len(page.calls) :
       /\ page.calls[i].op = "send"
       /\ page' = [page EXCEPT !.calls = RemoveAt(@, i), !.isStreaming = FALSE]
  /\ UNCHANGED <<devMessage, devSession, delivered>>
  /\ PageIdle

\* handleRedo up to `await deleteMessageMutation.mutateAsync(...)`.
PageRedo ==
  /\ ~page.isStreaming
  /\ Len(page.calls) < MaxCalls
  /\ \E currentIndex \in 2..Len(devMessage) :
       /\ devMessage[currentIndex - 1].role # "assistant"
       /\ page' = [page EXCEPT !.calls =
                     Append(@, [op |-> "redo",
                                ids |-> {devMessage[i].id : i \in currentIndex..Len(devMessage)},
                                messageId |-> devMessage[currentIndex - 1].id])]
  /\ UNCHANGED <<devMessage, devSession, delivered>>
  /\ PageIdle

\* The deletion resolved: setPendingMessage(previous message), setIsStreaming(true).
PageRedoResolves ==
  /\ \E i \in 1..Len(page.calls) :
       /\ page.calls[i].op = "redo"
       /\ devMessage' = DeleteRows(devMessage, page.calls[i].ids)
       /\ page' = [page EXCEPT !.calls = RemoveAt(@, i),
                               !.isStreaming = TRUE,
                               !.pendingMessage = page.calls[i].messageId,
                               !.runs = @ \cup {page.calls[i].messageId}]
  /\ delivered' = <<>>
  /\ UNCHANGED devSession
  /\ PageIdle

\* onData of a "done" chunk / onError: the page leaves the streaming state.  Only
\* the subscription on the current pendingMessage is alive.
AfterRun(messageId) ==
  IF page.pendingMessage = messageId
  THEN [page EXCEPT !.runs = @ \ {messageId}, !.isStreaming = FALSE, !.pendingMessage = 0]
  ELSE [page EXCEPT !.runs = @ \ {messageId}]

\* A run of the page ends successfully: its assistant row is stored and "done"
\* reaches the subscriber it still has.
PageRunDone ==
  /\ devSession.nextId <= MaxRows
  /\ \E messageId \in page.runs :
       /\ page' = AfterRun(messageId)
       /\ delivered' = IF page.pendingMessage = messageId
                       THEN Append(delivered, DoneWithId(devSession.nextId))
                       ELSE delivered
  /\ devMessage' = Append(devMessage,
                          Row(devSession.nextId, "assistant", <<"o", "k">>, Null, Null))
  /\ devSession' = [devSession EXCEPT !.nextId = @ + 1]
  /\ PageIdle

\* A run of the page fails: emit.error.
PageRunFails ==
  /\ \E messageId \in page.runs :
       /\ page' = AfterRun(messageId)
       /\ delivered' = IF page.pendingMessage = messageId
                       THEN Append(delivered, ErrorEvent(LLMErrorMessage))
                       ELSE delivered
  /\ UNCHANGED <<devMessage, devSession>>
  /\ PageIdle

NextPage ==
  \/ PageSend
  \/ PageAddResolves
  \/ PageAddRejects
  \/ PageRedo
  \/ PageRedoResolves
  \/ PageRunDone
  \/ PageRunFails

SpecPage == InitSession /\ [][NextPage]_vars

\* C34: between the acceptance of a handleSendMessage call and the "done" or
\* error of its run no other call of handleSendMessage or handleRedo gets past
\* the guard, so that at most one accepted call or run is pending on the page.
C34_DuplicateSendIgnored ==
  Len(page.calls) + Cardinality(page.runs) <= 1


\* The value is a non-empty string.
StringSet(v) == v.t = "string" /\ v.s # <<>>

\* The widget id of a frame is the string path of its sticky meta, if it has one.
WidgetFollowsMeta(frame) ==
  /\ Truthy(frame.finalWidgetId) =>
       /\ Truthy(frame.finalMeta)
       /\ StringSet(frame.finalWidgetId)
       /\ Get(frame.finalMeta, "path") = frame.finalWidgetId
  /\ (Truthy(frame.finalMeta) /\ ~StringSet(Get(frame.finalMeta, "path"))) =>
       frame.finalWidgetId = Undefined

Appended(frame) ==
  SubSeq(frame.currentMessages, Len(frame.messages) + 1, Len(frame.currentMessages))

\* C36: at every point of a run, and after it has returned or thrown, the
\* message array the caller passed holds the messages it held at the call; the
\* assistant and tool messages of the rounds are in the run's own list only.
C36_CallerArrayUntouched ==
  /\ gcc.messages \in InitialMessages
  /\ wrap.chatMessages \in InitialMessages
  /\ scc.messages = wrap.chatMessages
  /\ \A i \in 1..Len(gcc.messages) : gcc.messages[i].role \in {"system", "user"}
  /\ \A i \in 1..Len(wrap.chatMessages) : wrap.chatMessages[i].role \in {"system", "user"}
  /\ \A i \in 1..Len(Appended(gcc)) : Appended(gcc)[i].role \in {"assistant", "tool"}
  /\ \A i \in 1..Len(Appended(scc)) : Appended(scc)[i].role \in {"assistant", "tool"}

\* Both runs have failed at the cap after ten tool rounds; each holds the twenty
\* messages of its rounds, the callers' arrays hold none of them.
C36_Witness ==
  /\ gcc.pc = "thrown" /\ gcc.iteration = 10
  /\ Len(Appended(gcc)) = 20
  /\ scc.pc = "thrown" /\ scc.iteration = 10
  /\ Len(Appended(scc)) = 20
  /\ Len(wrap.chatMessages) = 2 /\ Len(gcc.messages) = 2

(***************************************************************************)
(* The iteration cap is checked after the tool calls of the round          *)
(***************************************************************************)
ChunksOfType(type) == {i \in 1..Len(emitted) : emitted[i].type = type}

InvokedBy(run, id) ==
  {i \in 1..Len(handlerLog) : handlerLog[i].run = run /\ handlerLog[i].id = id}

\* Every call of every one of the ten rounds has been answered in the run's
\* message list, and its handler has run when the tool is registered and
\* the arguments parse.
AllRoundsExecuted(frame, run, streaming) ==
  /\ frame.iteration = 10
  /\ Len(llm.decisions) = 10
  /\ \A r \in 1..10 :
       /\ ToolCallRound(r)
       /\ \A j \in 1..Len(llm.decisions[r].tool_calls) :
            LET call == llm.decisions[r].tool_calls[j] IN
              /\ Cardinality(ToolMessagesFor(frame.currentMessages, call.id)) = 1
              /\ (Registered(call) /\ ~ParseFails(call, streaming)) =>
                   Cardinality(InvokedBy(run, call.id)) = 1
              /\ ~(Registered(call) /\ ~ParseFails(call, streaming)) =>
                   InvokedBy(run, call.id) = {}

\* The streaming run has yielded one tool_call chunk for each of the ten
\* rounds and one tool_result chunk for each call of a registered tool.
AllRoundsReported ==
  /\ Cardinality(ChunksOfType("tool_call")) = 10
  /\ Cardinality(ChunksOfType("tool_result")) =
       SumOver([r \in 1..10 |->
                  Cardinality(ExecutedAmong(r, Len(llm.decisions[r].tool_calls)))], 10)

\* C37: when a run fails at the iteration cap, the tool calls of all ten
\* rounds, the batch of the tenth round included, have been executed before
\* the error is raised: every call has its tool message, every handler that
\* can run has run once, and the streaming run has yielded the tool_call and
\* tool_result chunks of all ten rounds.
C37_CapAfterTenthBatch ==
  /\ (gcc.pc = "thrown" /\ Includes(gcc.error, TooManyIterations)) =>
       AllRoundsExecuted(gcc, "gcc", FALSE)
  /\ (scc.pc = "thrown" /\ Includes(scc.error, TooManyIterations)) =>
       /\ AllRoundsExecuted(scc, "scc", TRUE)
       /\ AllRoundsReported

C37_Witness ==
  /\ gcc.pc = "thrown" /\ Includes(gcc.error, TooManyIterations)
  /\ scc.pc = "thrown" /\ Includes(scc.error, TooManyIterations)
  /\ InvokedBy("gcc", CallId(10, 1)) # {}
  /\ InvokedBy("scc", CallId(10, 1)) # {}
  /\ Cardinality(ChunksOfType("tool_result")) >= 10

(***************************************************************************)
(* Deletions stay within the caller's rows                                 *)
(***************************************************************************)
\* C38: deleteMessage(userId, ids) reports success and removes exactly the
\* messages whose id is in ids and whose owner is userId; every other message,
\* those of other users included, and every session stay as they were.
\* A successful deleteSession removes the session and every message of it in
\* the same step and nothing else.  No message is ever left without the
\* session it belongs to, and a message's owner is its session's owner.
C38_DeletionsIsolated ==
  [][ /\ store'.reply.op = "deleteMessage" =>
           /\ store'.reply.ok
           /\ store'.devMessage \subseteq store.devMessage
           /\ store.devMessage \ store'.devMessage =
                { m \in store.devMessage : /\ m.id \in store'.reply.messageIds
                                           /\ m.user_id = store'.reply.userId }
           /\ store'.devSession = store.devSession
      /\ (store'.reply.op = "deleteSession" /\ store'.reply.ok) =>
           /\ store'.devSession =
                { s \in store.devSession : s.id # store'.reply.sessionId }
           /\ store'.devMessage =
                { m \in store.devMessage : m.session_id # store'.reply.sessionId }
           /\ \E s \in store.devSession :
                s.id = store'.reply.sessionId /\ s.user_id = store'.reply.userId
      /\ \A m \in store'.devMessage : \E s \in store'.devSession :
           s.id = m.session_id /\ s.user_id = m.user_id ]_vars

\* u2 named both message ids, one of them u1's: the reply is a success and
\* u1's message is still there, while u2's own is gone.
C38_Witness ==
  /\ store.reply.op = "deleteMessage" /\ store.reply.userId = "u2"
  /\ store.reply.messageIds = {1, 2}
  /\ store.reply.ok
  /\ store.nextMessage = 3
  /\ Cardinality(store.devMessage) = 1
  /\ \A m \in store.devMessage : m.user_id = "u1"
  /\ Cardinality(store.devSession) = 2

====
